---- MODULE Spec2Model ----
(***************************************************************************)
(* libtimeseries: the TSK batch codec (Kafka backend encoder, tsk-proxy    *)
(* decoder), the tsk-proxy ingest loop, and the Kafka backend's connect    *)
(* and produce paths.                                                      *)
(*                                                                         *)
(* Strings are sequences of byte values (0..255).  A C integer that is     *)
(* copied to or from a buffer is represented by its memory image (its      *)
(* bytes in host order), so that htonl()/ntohl() and memcpy() are modelled *)
(* by what they do on either byte order.                                   *)
(***************************************************************************)
EXTENDS Integers, Sequences, FiniteSets, TLC

VARIABLES
  little_endian,   \* byte order of the host the build runs on
  \* ---- codec harness (encoder of the Kafka backend, decoder of the proxy)
  c_pc, c_time, c_channel, c_kvs, c_bytes, c_dec,
  \* ---- Kafka backend
  k_pc,            \* "uninit", "ready" (init returned 0), "failed", "freed"
  kstate,          \* timeseries_backend_kafka_state_t, or NoState
  partition_cnt,   \* number of partitions of the topic on the brokers
  produced,        \* the messages rd_kafka_produce accepted
  k_calls,         \* number of kp_flush / set_single calls made
  k_ghost,         \* what the last connect, the last free and the calls did
  \* ---- tsk-proxy
  cfg,             \* tsk_config_t (immutable after parse_config_file)
  kp,              \* data key package (TIMESERIES_KP_DISABLE)
  stats_kp,        \* statistics key package (TIMESERIES_KP_RESET)
  current_time,    \* static int current_time of maybe_flush
  stats_time, stats_interval, now,
  shutdown_proxy, rkmessage, eof_since_data, pc, rc,
  exit_status,     \* <<>> while the process runs, else << its exit status >>
  polls,           \* number of bus events delivered so far
  last_flush,      \* the last timeseries_kp_flush(kp, ...) that reached the backend
  flush_count,     \* how often each timestamp was flushed downstream
  stats_flushes,   \* timestamps of the stats flushes
  last_msg,        \* outcome of the last handle_message call
  pending,         \* accepted tuples since the last downstream flush
  bus,             \* what the bus and the wall clock can do in this run
  tally,           \* what was counted since the last successful stats flush
  \* ---- tsk-proxy start-up on an arbitrary configuration file
  m_pc,            \* "start", then how main's start-up ended
  m_present,       \* the keys the configuration file provides
  m_exit,          \* << status >> once main has returned
  \* ---- key package of libtimeseries.c
  l_pc, l_kp, l_ret, l_out, l_calls,
  \* ---- one key package flushed through the ASCII and the Kafka backend
  e_pc, e_kp, e_time, e_ascii, e_rc,
  e_peak,          \* largest buffer_written during the Kafka kp_flush
  \* ---- ASCII backend: bulk protocol
  a_pc, a_st, a_out, a_ret, a_calls,
  \* ---- backend registry of a timeseries_t
  b_pc, b_slots, b_name, b_ret,
  \* ---- one SEND_MSG of the Kafka backend, produce attempt by attempt
  s_pc, s_buf, s_full, s_sent, s_tries,
  \* ---- one Kafka kp_flush of a key package with keys of any size
  t_pc, t_kp, t_res

vars == << little_endian, c_pc, c_time, c_channel, c_kvs, c_bytes, c_dec,
           k_pc, kstate, partition_cnt, produced, k_calls, cfg, kp, stats_kp, current_time, stats_time, stats_interval, now,
           shutdown_proxy, rkmessage, eof_since_data, pc, rc, exit_status, polls,
           last_flush, flush_count, stats_flushes, last_msg, pending, bus, tally,
           m_pc, m_present, m_exit, l_pc, l_kp, l_ret, l_out, l_calls,
           e_pc, e_kp, e_time, e_ascii, e_rc, k_ghost, e_peak,
           a_pc, a_st, a_out, a_ret, a_calls, b_pc, b_slots, b_name, b_ret,
           s_pc, s_buf, s_full, s_sent, s_tries, t_pc, t_kp, t_res >>

codec_vars == << c_pc, c_time, c_channel, c_kvs, c_bytes, c_dec >>

kafka_vars == << k_pc, kstate, partition_cnt, produced, k_calls, k_ghost >>

proxy_vars == << cfg, kp, stats_kp, current_time, stats_time, stats_interval,
                 now, shutdown_proxy, rkmessage, eof_since_data, pc, rc,
                 exit_status, polls,
                 last_flush, flush_count, stats_flushes, last_msg, pending,
                 bus, tally >>

main_vars == << m_pc, m_present, m_exit >>

lkp_vars == << l_pc, l_kp, l_ret, l_out, l_calls >>

emit_vars == << e_pc, e_kp, e_time, e_ascii, e_rc, e_peak >>

ascii_vars == << a_pc, a_st, a_out, a_ret, a_calls >>

reg_vars == << b_pc, b_slots, b_name, b_ret >>

send_vars == << s_pc, s_buf, s_full, s_sent, s_tries >>

batch_vars == << t_pc, t_kp, t_res >>

more_vars == << ascii_vars, reg_vars, send_vars, batch_vars >>

lib_vars == << main_vars, lkp_vars, emit_vars, more_vars >>

(***************************************************************************)
(* Bytes and C integers                                                    *)
(***************************************************************************)
Reverse(s) == [i \in 1..Len(s) |-> s[Len(s) + 1 - i]]

Min(a, b) == IF a < b THEN a ELSE b

\* the n low-order bytes of x, least significant first
RECURSIVE LEBytes(_, _)
LEBytes(x, n) == IF n = 0 THEN <<>> ELSE <<x % 256>> \o LEBytes(x \div 256, n - 1)

\* the number whose base-256 digits are s, most significant first
RECURSIVE BENum(_)
BENum(s) == IF s = <<>> THEN 0
            ELSE BENum(SubSeq(s, 1, Len(s) - 1)) * 256 + s[Len(s)]

\* memory image of an n-byte unsigned integer variable holding x
HostImage(le, x, n) == IF le THEN LEBytes(x, n) ELSE Reverse(LEBytes(x, n))

\* value of the integer variable whose memory image is m
HostVal(le, m) == IF le THEN BENum(Reverse(m)) ELSE BENum(m)

\* htons / htonl / htonll (and ntohs / ntohl / ntohll) on a memory image
hton(le, m) == IF le THEN Reverse(m) ELSE m

\* a C string stops at its first NUL byte
CStr(s) ==
  IF \E i \in 1..Len(s) : s[i] = 0
  THEN SubSeq(s, 1, (CHOOSE i \in 1..Len(s) :
                        s[i] = 0 /\ \A j \in 1..(i - 1) : s[j] # 0) - 1)
  ELSE s

(***************************************************************************)
(* TSK encoder of the Kafka backend (write_header, write_kv)               *)
(***************************************************************************)
HEADER_MAGIC == <<84, 83, 75, 66, 65, 84, 67, 72>>   \* "TSKBATCH"

HEADER_MAGIC_LEN == 8

MESSAGE_VERSION == 0

UINT16_MAX == 65535

\* SERIALIZE_VAL: memcpy of the variable's memory image to the write cursor
SERIALIZE_VAL(image) == image

\* write_header without the byte swaps (host order on the wire)
write_header_noswap(le, time, channel, channel_len) ==
  HEADER_MAGIC
    \o SERIALIZE_VAL(HostImage(le, MESSAGE_VERSION, 1))
    \o SERIALIZE_VAL(HostImage(le, time, 4))
    \o SERIALIZE_VAL(HostImage(le, channel_len, 2))
    \o SubSeq(channel, 1, channel_len)

\* the bytes write_header puts in the buffer (its return value is their number)
write_header(le, time, channel, channel_len) ==
  HEADER_MAGIC
    \o SERIALIZE_VAL(HostImage(le, MESSAGE_VERSION, 1))
    \o SERIALIZE_VAL(hton(le, HostImage(le, time, 4)))
    \o SERIALIZE_VAL(hton(le, HostImage(le, channel_len, 2)))
    \o SubSeq(channel, 1, channel_len)

\* the bytes write_kv puts in the buffer; key is a C string
write_kv(le, key, value) ==
  LET key_len == Len(CStr(key)) IN
    SERIALIZE_VAL(hton(le, HostImage(le, key_len % (UINT16_MAX + 1), 2)))
      \o SubSeq(key, 1, key_len)
      \o SERIALIZE_VAL(hton(le, HostImage(le, value, 8)))

\* one TSK message: the header, then one tuple per (key, value)
RECURSIVE write_kvs(_, _)
write_kvs(le, kvs) ==
  IF kvs = <<>> THEN <<>>
  ELSE write_kv(le, kvs[1][1], kvs[1][2]) \o write_kvs(le, Tail(kvs))

encode_message(le, time, channel, kvs) ==
  write_header(le, time, channel, Len(channel)) \o write_kvs(le, kvs)

(***************************************************************************)
(* Key Package, as the proxy and the backends use it                       *)
(***************************************************************************)
KP_RESET == "RESET"

KP_DISABLE == "DISABLE"

kp_get_key(k, key) ==
  IF \E i \in 1..Len(k) : k[i].key = key
  THEN (CHOOSE i \in 1..Len(k) : k[i].key = key) - 1
  ELSE -1

kp_add_key(k, key) ==
  IF kp_get_key(k, key) # -1
  THEN [kp |-> k, id |-> kp_get_key(k, key)]
  ELSE [kp |-> Append(k, [key |-> key, value |-> 0, enabled |-> TRUE]),
        id |-> Len(k)]

kp_enable_key(k, id) == [k EXCEPT ![id + 1].enabled = TRUE]

kp_set(k, id, value, mode) ==
  [k EXCEPT ![id + 1].value = value,
            ![id + 1].enabled = IF mode = KP_DISABLE THEN TRUE ELSE @]

kp_get(k, id) == k[id + 1].value

kp_size(k) == Len(k)

kp_enabled_size(k) == Cardinality({i \in 1..Len(k) : k[i].enabled})

\* what a backend's kp_flush emits: the enabled records, in insertion order
RECURSIVE kp_enabled_kvs(_)
kp_enabled_kvs(k) ==
  IF k = <<>> THEN <<>>
  ELSE (IF k[1].enabled THEN << <<k[1].key, k[1].value>> >> ELSE <<>>)
         \o kp_enabled_kvs(Tail(k))

\* a flush that leaves values and enabled flags alone (LEAVE)
kp_after_flush_leave(k, mode) == k

\* the KP after a successful flush
kp_after_flush(k, mode) ==
  [i \in 1..Len(k) |->
     [k[i] EXCEPT !.value = IF mode = KP_RESET THEN 0 ELSE @,
                  !.enabled = IF mode = KP_DISABLE THEN FALSE ELSE @]]

(***************************************************************************)
(* tsk-proxy: statistics, decoder, flush logic                             *)
(***************************************************************************)
FORCE_FLUSH == 0

TSKBATCH_VERSION == 0

HEADER_LEN == HEADER_MAGIC_LEN + 1 + 4 + 2

KEY_BUF_LEN == 1024

\* inc_stat that stores the value instead of adding it
inc_stat_stores(skp, stats_key_suffix, value) ==
  LET a == IF kp_get_key(skp, stats_key_suffix) = -1
           THEN kp_add_key(skp, stats_key_suffix)
           ELSE [kp |-> skp, id |-> kp_get_key(skp, stats_key_suffix)]
  IN kp_set(a.kp, a.id, value, KP_RESET)

\* inc_stat, lines 212-230 (the key prefix is left out of the key)
inc_stat(skp, stats_key_suffix, value) ==
  LET a == IF kp_get_key(skp, stats_key_suffix) = -1
           THEN kp_add_key(skp, stats_key_suffix)
           ELSE [kp |-> skp, id |-> kp_get_key(skp, stats_key_suffix)]
  IN kp_set(a.kp, a.id, value + kp_get(a.kp, a.id), KP_RESET)

\* strncmp(a, b, n) == 0
strncmp_eq(a, b, n) ==
  SubSeq(CStr(a), 1, Min(n, Len(CStr(a)))) = SubSeq(CStr(b), 1, Min(n, Len(CStr(b))))

\* bcmp(a, b, n) != 0 on the first n bytes
bcmp_ne(a, b, n) == \E i \in 1..n : a[i] # b[i]

NoTuple == [rc |-> 0, rest |-> <<>>, kp |-> <<>>, decoded |-> <<>>,
            written |-> <<>>, ub |-> FALSE]

\* parse_key_value with the filter test inverted
parse_filter_inverted(cf, key, keylen) ==
  cf.filters_cnt # 0 /\
    \E i \in 1..cf.filters_cnt :
       keylen >= cf.filter_lens[i] /\ strncmp_eq(cf.filters[i], key, cf.filter_lens[i])

\* lines 262-275: TRUE when the tuple is dropped by the filters
parse_filter_drops(cf, key, keylen) ==
  cf.filters_cnt # 0 /\
    ~ \E i \in 1..cf.filters_cnt :
         keylen >= cf.filter_lens[i] /\ strncmp_eq(cf.filters[i], key, cf.filter_lens[i])

\* parse_key_value: rest is the buffer from *buf on (*remain = Len(rest)).
\* ub_benign: whether writing past key[KEY_BUF_LEN] goes unnoticed.
parse_key_value(cf, le, k, rest, ub_benign) ==
  LET same == [NoTuple EXCEPT !.rest = rest, !.kp = k] IN
  IF Len(rest) < 2 THEN same                      \* DESERIALIZE_VAL: return 0
  ELSE
    LET keylen == HostVal(le, hton(le, SubSeq(rest, 1, 2)))
        r1 == SubSeq(rest, 3, Len(rest))
    IN
    IF Len(r1) < keylen THEN [same EXCEPT !.rc = 1, !.rest = r1]
    ELSE IF keylen >= KEY_BUF_LEN /\ ~ub_benign
    THEN [same EXCEPT !.rc = 1, !.rest = r1, !.ub = TRUE]
    ELSE
      LET key == CStr(SubSeq(r1, 1, keylen))
          r2 == SubSeq(r1, keylen + 1, Len(r1))
      IN
      IF Len(r2) < 8 THEN [same EXCEPT !.rest = r2] \* DESERIALIZE_VAL: return 0
      ELSE
        LET value == HostVal(le, hton(le, SubSeq(r2, 1, 8)))
            r3 == SubSeq(r2, 9, Len(r2))
            tuple == << <<key, value>> >>
        IN
        IF parse_filter_drops(cf, key, keylen)
        THEN [same EXCEPT !.rest = r3, !.decoded = tuple]
        ELSE
          LET a == IF kp_get_key(k, key) = -1
                   THEN kp_add_key(k, key)
                   ELSE [kp |-> kp_enable_key(k, kp_get_key(k, key)),
                         id |-> kp_get_key(k, key)]
          IN [rc |-> 0, rest |-> r3,
              kp |-> kp_set(a.kp, a.id, value, KP_DISABLE),
              decoded |-> tuple, written |-> tuple, ub |-> FALSE]

\* the tuple loop of handle_message, lines 390-395.  "hang": an iteration
\* returned 0 and consumed nothing, so every later iteration does the same.
RECURSIVE tuple_loop(_, _, _, _, _, _, _)
tuple_loop(cf, le, k, rest, ub_benign, decoded, written) ==
  IF ~(Len(rest) > 0)
  THEN [status |-> "ok", kp |-> k, decoded |-> decoded, written |-> written]
  ELSE
    LET r == parse_key_value(cf, le, k, rest, ub_benign) IN
    IF r.ub
    THEN [status |-> "ub", kp |-> k, decoded |-> decoded, written |-> written]
    ELSE IF r.rc # 0
    THEN [status |-> "parse_error", kp |-> r.kp, decoded |-> decoded,
          written |-> written]
    ELSE IF r.rest = rest
    THEN [status |-> "hang", kp |-> k, decoded |-> decoded, written |-> written]
    ELSE tuple_loop(cf, le, r.kp, r.rest, ub_benign,
                    decoded \o r.decoded, written \o r.written)

\* maybe_flush that flushes on every call
maybe_flush_always(P, flush_time, flush_ok) ==
  IF kp_enabled_size(P.kp) > 0 /\ P.current_time # 0
  THEN [rc |-> 0, kp |-> kp_after_flush(P.kp, KP_DISABLE),
        stats_kp |-> P.stats_kp, current_time |-> flush_time,
        flushed |-> << [time |-> P.current_time, kvs |-> kp_enabled_kvs(P.kp),
                        trigger |-> flush_time,
                        enabled_after |->
                          kp_enabled_size(kp_after_flush(P.kp, KP_DISABLE))] >>]
  ELSE [rc |-> 0, kp |-> P.kp, stats_kp |-> P.stats_kp,
        current_time |-> flush_time, flushed |-> <<>>]

\* maybe_flush: P = [kp, stats_kp, current_time]; flush_ok is whether the
\* downstream timeseries_kp_flush succeeds
maybe_flush(P, flush_time, flush_ok) ==
  LET keep == [rc |-> 0, kp |-> P.kp, stats_kp |-> P.stats_kp,
               current_time |-> P.current_time, flushed |-> <<>>]
  IN
  IF P.current_time = 0
  THEN [keep EXCEPT !.current_time = flush_time]
  ELSE IF flush_time = 0 \/ flush_time # P.current_time
  THEN
    IF kp_enabled_size(P.kp) > 0
    THEN
      LET s1 == inc_stat(P.stats_kp, "flush_cnt", 1)
          s2 == inc_stat(s1, "flushed_key_cnt", kp_enabled_size(P.kp))
      IN
      IF ~flush_ok
      THEN [keep EXCEPT !.rc = -1, !.stats_kp = s2]
      ELSE [rc |-> 0, kp |-> kp_after_flush(P.kp, KP_DISABLE),
            stats_kp |-> s2, current_time |-> flush_time,
            flushed |-> << [time |-> P.current_time,
                            kvs |-> kp_enabled_kvs(P.kp),
                            trigger |-> flush_time,
                            enabled_after |->
                              kp_enabled_size(kp_after_flush(P.kp, KP_DISABLE))] >>]
    ELSE [keep EXCEPT !.current_time = flush_time]
  ELSE keep

NoHeader == [time |-> -1, chanlen |-> -1, channel |-> <<>>]

\* handle_message that lets every version byte through
bad_version_ignored(version) == FALSE

\* line 350: the version check
bad_version(version) == version # TSKBATCH_VERSION

\* lines 374-375: the bcmp over the shorter of the two lengths
channel_differs(cf, chanlen, channel) ==
  bcmp_ne(channel, cf.kafka_channel, Min(chanlen, cf.kafka_chanlen))

\* handle_message: payload is rkmessage->payload (len = Len(payload))
handle_message(cf, le, P, payload, flush_ok, ub_benign) ==
  LET len == Len(payload)
      skip(st, hdr) ==
        [rc |-> 0, status |-> st, kp |-> P.kp, stats_kp |-> P.stats_kp,
         current_time |-> P.current_time, flushed |-> <<>>, hdr |-> hdr,
         decoded |-> <<>>, written |-> <<>>]
  IN
  IF len < HEADER_LEN THEN skip("truncated", NoHeader)
  ELSE IF bad_version(payload[HEADER_MAGIC_LEN + 1])
  THEN skip("bad_version", NoHeader)
  ELSE
    LET time == HostVal(le, hton(le, SubSeq(payload, 10, 13)))
        chanlen == HostVal(le, hton(le, SubSeq(payload, 14, 15)))
        remain == len - HEADER_LEN
    IN
    IF remain < chanlen
    THEN skip("short_channel", [time |-> time, chanlen |-> chanlen, channel |-> <<>>])
    ELSE
      LET channel == SubSeq(payload, HEADER_LEN + 1, HEADER_LEN + chanlen)
          hdr == [time |-> time, chanlen |-> chanlen, channel |-> channel]
      IN
      IF channel_differs(cf, chanlen, channel)
      THEN skip("channel_mismatch", hdr)
      ELSE
        LET f == maybe_flush(P, time, flush_ok) IN
        IF f.rc # 0
        THEN [rc |-> -1, status |-> "flush_failed", kp |-> f.kp,
              stats_kp |-> f.stats_kp, current_time |-> f.current_time,
              flushed |-> f.flushed, hdr |-> hdr, decoded |-> <<>>,
              written |-> <<>>]
        ELSE
          LET s1 == inc_stat(f.stats_kp, "messages_cnt", 1)
              s2 == inc_stat(s1, "messages_bytes", len)
              t == tuple_loop(cf, le, f.kp,
                              SubSeq(payload, HEADER_LEN + chanlen + 1, len),
                              ub_benign, <<>>, <<>>)
          IN [rc |-> 0, status |-> t.status, kp |-> t.kp, stats_kp |-> s2,
              current_time |-> f.current_time, flushed |-> f.flushed,
              hdr |-> hdr, decoded |-> t.decoded, written |-> t.written]

(***************************************************************************)
(* tsk-proxy: signal handler, configuration check and start-up             *)
(***************************************************************************)
\* a handler that never ends the process
sigint_exit_never(n) == <<>>

\* a handler that ends the process with status -1
sigint_exit_minus1(n) == IF n >= 3 THEN <<-1>> ELSE <<>>

\* catch_sigint, lines 191-194: the handler ends the process with exit(1)
\* once the counter has reached three; n is the counter after the increment
sigint_exit(n) == IF n >= 3 THEN <<1>> ELSE <<>>

\* the keys parse_config_file knows
ConfigKeys ==
  {"log-level", "filter-prefix", "timeseries-backend", "timeseries-dbats-opts",
   "kafka-brokers", "kafka-topic-prefix", "kafka-channel",
   "kafka-consumer-group", "kafka-offset", "stats-interval",
   "stats-ts-backend", "stats-ts-opts"}

\* is_valid_config: 0 if no required member of the tsk_config_t is NULL
is_valid_config(present) ==
  IF "timeseries-backend" \notin present THEN 1
  ELSE IF "timeseries-dbats-opts" \notin present THEN 1
  ELSE IF "kafka-brokers" \notin present THEN 1
  ELSE IF "kafka-topic-prefix" \notin present THEN 1
  ELSE IF "kafka-channel" \notin present THEN 1
  ELSE IF "kafka-consumer-group" \notin present THEN 1
  ELSE IF "kafka-offset" \notin present THEN 1
  ELSE IF "stats-ts-backend" \notin present THEN 1
  ELSE IF "stats-ts-opts" \notin present THEN 1
  ELSE 0

\* main up to the call of run: "run" if run is entered, else how main ended.
\* Without a stats-interval key the static stats_interval keeps its initial 0
\* and STATS_INTERVAL_NOW in init_stats_timeseries divides by it.
main_startup(argc, parsed, present, kafka_ok, ts_ok, stats_ok) ==
  IF argc # 2 THEN [status |-> "usage", exit |-> <<-1>>]
  ELSE IF ~parsed THEN [status |-> "parse_failed", exit |-> <<-1>>]
  ELSE IF is_valid_config(present) # 0
  THEN [status |-> "invalid_config", exit |-> <<-1>>]
  ELSE IF ~kafka_ok THEN [status |-> "kafka_failed", exit |-> <<-1>>]
  ELSE IF ~ts_ok THEN [status |-> "timeseries_failed", exit |-> <<-1>>]
  ELSE IF ~stats_ok THEN [status |-> "stats_failed", exit |-> <<-1>>]
  ELSE IF "stats-interval" \notin present
  THEN [status |-> "div_by_zero", exit |-> <<>>]
  ELSE [status |-> "run", exit |-> <<>>]

(***************************************************************************)
(* tsk-proxy: the run loop                                                 *)
(***************************************************************************)
NULL == [err |-> "NULL"]

NoFlush == [time |-> -1, kvs |-> <<>>, trigger |-> -1, expect |-> <<>>,
            enabled_after |-> 0]

NoMsg == [rc |-> 0, status |-> "none", flushed |-> FALSE, kp_changed |-> FALSE,
          stats_changed |-> FALSE, time_changed |-> FALSE, len |-> 0,
          bad_header |-> FALSE, channel |-> <<>>, decoded |-> <<>>,
          written |-> <<>>]

\* STATS_INTERVAL_NOW
STATS_INTERVAL_NOW(t, interval) == (t \div interval) * interval

\* maybe_flush_stats that moves stats_time on also when the flush failed
maybe_flush_stats_moves(S, t, interval, stats_ok) ==
  LET n == STATS_INTERVAL_NOW(t, interval) IN
  IF n >= S.stats_time + interval
  THEN [stats_kp |-> IF stats_ok THEN kp_after_flush(S.stats_kp, KP_RESET)
                     ELSE S.stats_kp,
        stats_time |-> n,
        flushed |-> IF stats_ok THEN <<S.stats_time>> ELSE <<>>,
        failed |-> ~stats_ok]
  ELSE [stats_kp |-> S.stats_kp, stats_time |-> S.stats_time, flushed |-> <<>>,
        failed |-> FALSE]

\* maybe_flush_stats: S = [stats_kp, stats_time]; stats_ok is whether the
\* flush of the stats key package succeeds
maybe_flush_stats(S, t, interval, stats_ok) ==
  LET n == STATS_INTERVAL_NOW(t, interval) IN
  IF n >= S.stats_time + interval
  THEN IF ~stats_ok
       THEN [stats_kp |-> S.stats_kp, stats_time |-> S.stats_time, flushed |-> <<>>,
             failed |-> TRUE]
       ELSE [stats_kp |-> kp_after_flush(S.stats_kp, KP_RESET), stats_time |-> n,
             flushed |-> <<S.stats_time>>, failed |-> FALSE]
  ELSE [stats_kp |-> S.stats_kp, stats_time |-> S.stats_time, flushed |-> <<>>,
        failed |-> FALSE]

\* ---- the bus: what rd_kafka_consumer_poll can return
MaxPolls == 2

MaxTicks == 1

StatsInterval == 2

NowStart == 4

ch1 == <<99, 104, 49>>          \* "ch1"

key_ax == <<97, 46, 120>>       \* "a.x"

key_by == <<98, 46, 121>>       \* "b.y"

key_foo == <<102, 111, 111>>    \* "foo"

prefix_a == <<97, 46>>          \* "a."

\* a well-formed message as the Kafka backend sends it; sent is what the
\* producer put in it
Msg(le, time, channel, kvs) ==
  [err |-> "NONE", payload |-> encode_message(le, time, channel, kvs),
   sent |-> [time |-> time, channel |-> channel, kvs |-> kvs]]

\* a frame that is no well-formed message, with the tuples that precede the damage
Raw(payload, time, channel, kvs) ==
  [err |-> "NONE", payload |-> payload,
   sent |-> [time |-> time, channel |-> channel, kvs |-> kvs]]

GoodMsgs(le) ==
  { Msg(le, 100, ch1, << <<key_ax, 1>> >>),
    Msg(le, 100, ch1, << <<key_ax, 1>>, <<key_by, 2>> >>),
    Msg(le, 160, ch1, << <<key_by, 3>> >>),
    Msg(le, 0, ch1, << <<key_by, 2>> >>) }

OtherChannelMsgs(le) ==
  { Msg(le, 160, <<120, 104, 49>>, << <<key_ax, 1>> >>),      \* "xh1"
    Msg(le, 160, <<99, 104>>, << <<key_ax, 1>> >>),           \* "ch"
    Msg(le, 160, <<99, 104, 49, 120>>, << <<key_ax, 1>> >>),  \* "ch1x"
    Msg(le, 160, <<>>, << <<key_ax, 1>> >>) }                 \* ""

BadHeaderMsgs(le) ==
  LET m == encode_message(le, 160, ch1, << <<key_ax, 1>> >>) IN
  { Raw(SubSeq(m, 1, HEADER_LEN - 1), 160, ch1, <<>>),
    Raw([m EXCEPT ![HEADER_MAGIC_LEN + 1] = 1], 160, ch1, <<>>),
    Raw(SubSeq(write_header(le, 160, ch1, 3), 1, HEADER_LEN + 2), 160, ch1, <<>>) }

BadTupleMsgs(le) ==
  LET h == write_header(le, 160, ch1, 3)
      t == write_kv(le, key_ax, 1)
  IN
  { Raw(h \o t \o <<0>>, 160, ch1, << <<key_ax, 1>> >>),          \* 1 trailing byte
    Raw(h \o SubSeq(t, 1, Len(t) - 4), 160, ch1, <<>>),         \* value cut short
    Raw(h \o t \o <<0, 9, 98>>, 160, ch1, << <<key_ax, 1>> >>) } \* key cut short

BusEvents(le) ==
  GoodMsgs(le) \cup OtherChannelMsgs(le) \cup BadHeaderMsgs(le)
    \cup BadTupleMsgs(le) \cup {[err |-> "PARTITION_EOF"], [err |-> "OTHER"]}

BusEventsLE == BusEvents(TRUE)

BusEventsBE == BusEvents(FALSE)

\* ---- a bus for long bursts: partition EOFs, other errors, one message
MaxBurstPolls == 11

BurstEvents ==
  { Msg(TRUE, 100, ch1, << <<key_ax, 1>> >>),
    [err |-> "PARTITION_EOF"], [err |-> "OTHER"] }

\* ---- a bus for the statistics: messages of two lengths and two timestamps,
\* a message for another channel, a frame with a bad version byte
MaxStatsPolls == 3

MaxStatsTicks == 4

StatsEvents ==
  { Msg(TRUE, 100, ch1, << <<key_ax, 1>> >>),
    Msg(TRUE, 160, ch1, << <<key_ax, 1>>, <<key_by, 2>> >>),
    Msg(TRUE, 160, <<120, 104, 49>>, << <<key_ax, 1>> >>),
    Raw([encode_message(TRUE, 160, ch1, <<>>) EXCEPT ![HEADER_MAGIC_LEN + 1] = 1],
        160, ch1, <<>>) }

\* the events a run can meet, how many it polls and how far the clock moves
FullBus == [kind |-> "full", max_polls |-> MaxPolls, max_ticks |-> MaxTicks]

BurstBus == [kind |-> "burst", max_polls |-> MaxBurstPolls, max_ticks |-> 0]

StatsBus == [kind |-> "stats", max_polls |-> MaxStatsPolls,
             max_ticks |-> MaxStatsTicks]

NoBus == [kind |-> "none", max_polls |-> 0, max_ticks |-> 0]

BusEventsOf(kind, le) ==
  CASE kind = "full" -> (IF le THEN BusEventsLE ELSE BusEventsBE)
    [] kind = "burst" -> BurstEvents
    [] kind = "stats" -> StatsEvents
    [] OTHER -> {}

\* what the next rd_kafka_consumer_poll may return: NULL on timeout, or an event
PollResults ==
  IF polls < bus.max_polls
  THEN BusEventsOf(bus.kind, little_endian) \cup {NULL}
  ELSE {NULL}

\* the header of a frame, read off the wire layout
FrameHeaderBad(p) ==
  \/ Len(p) < 15
  \/ p[9] # 0
  \/ Len(p) < 15 + p[14] * 256 + p[15]

Configs ==
  { [kafka_channel |-> ch1, kafka_chanlen |-> 3, filters |-> <<>>,
     filter_lens |-> <<>>, filters_cnt |-> 0],
    [kafka_channel |-> ch1, kafka_chanlen |-> 3, filters |-> <<prefix_a>>,
     filter_lens |-> <<2>>, filters_cnt |-> 1] }

FlushTimes == {0, 100, 160}

\* ---- bookkeeping of what went downstream
\* the tuples of a message that the configured prefixes let through
PassFilter(cf, key) ==
  cf.filters_cnt = 0 \/
    \E i \in 1..cf.filters_cnt :
       Len(key) >= Len(cf.filters[i])
         /\ SubSeq(key, 1, Len(cf.filters[i])) = cf.filters[i]

RECURSIVE Tag(_, _, _, _)
Tag(cf, pend, kvs, time) ==
  IF kvs = <<>> THEN pend
  ELSE Tag(cf,
           IF PassFilter(cf, kvs[1][1])
           THEN [k \in DOMAIN pend \cup {kvs[1][1]} |->
                   IF k = kvs[1][1] THEN <<kvs[1][2], time>> ELSE pend[k]]
           ELSE pend,
           Tail(kvs), time)

Accepted(status) == status \in {"ok", "parse_error", "hang", "ub"}

NotePending(cf, pend, flushed, h, sent) ==
  IF Accepted(h.status)
  THEN Tag(cf, IF flushed # <<>> THEN <<>> ELSE pend, sent.kvs, sent.time)
  ELSE IF flushed # <<>> THEN <<>> ELSE pend

NoteFlush(lf, pend, flushed) ==
  IF flushed = <<>> THEN lf
  ELSE [time |-> flushed[1].time, kvs |-> flushed[1].kvs,
        trigger |-> flushed[1].trigger, expect |-> pend,
        enabled_after |-> flushed[1].enabled_after]

NoteCount(fc, flushed) ==
  IF flushed = <<>> THEN fc
  ELSE [fc EXCEPT ![flushed[1].time] = @ + 1]

\* ---- bookkeeping of what the statistics should say: what was counted
\* since the last successful stats flush, and whether the last step made a
\* maybe_flush_stats call whose flush failed ("failed", else "none")
NoTally == [msgs |-> 0, bytes |-> 0, flushes |-> 0, keys |-> 0, last |-> "none"]

TallyNone(tl) == [tl EXCEPT !.last = "none"]

\* a message that passed the length, version and channel checks
Validated(status) == Accepted(status) \/ status = "flush_failed"

\* a data flush that reached the backend and succeeded
TallyFlush(tl, flushed) ==
  IF flushed = <<>> THEN TallyNone(tl)
  ELSE [tl EXCEPT !.flushes = @ + 1, !.keys = @ + Len(flushed[1].kvs),
                  !.last = "none"]

TallyMsg(tl, status, len) ==
  IF Validated(status) THEN [tl EXCEPT !.msgs = @ + 1, !.bytes = @ + len] ELSE tl

\* s is what a maybe_flush_stats call returned
TallyStats(tl, s) ==
  IF s.flushed # <<>> THEN NoTally
  ELSE [tl EXCEPT !.last = IF s.failed THEN "failed" ELSE "none"]

ProxyState0 ==
  /\ cfg \in Configs
  /\ kp = <<>>
  /\ stats_kp = <<>>
  /\ current_time = 0
  /\ stats_interval = StatsInterval
  /\ now = NowStart
  /\ stats_time = STATS_INTERVAL_NOW(NowStart, StatsInterval)
  /\ shutdown_proxy = 0
  /\ rkmessage = NULL
  /\ eof_since_data = 0
  /\ pc = "main"
  /\ rc = -1
  /\ exit_status = <<>>
  /\ polls = 0
  /\ last_flush = NoFlush
  /\ flush_count = [t \in FlushTimes |-> 0]
  /\ stats_flushes = <<>>
  /\ last_msg = NoMsg
  /\ pending = <<>>
  /\ tally = NoTally

ProxyStart == ProxyState0 /\ bus = FullBus

ProxyIdle ==
  /\ cfg = [kafka_channel |-> <<>>, kafka_chanlen |-> 0, filters |-> <<>>,
            filter_lens |-> <<>>, filters_cnt |-> 0]
  /\ kp = <<>>
  /\ stats_kp = <<>>
  /\ current_time = 0
  /\ stats_interval = StatsInterval
  /\ now = NowStart
  /\ stats_time = 0
  /\ shutdown_proxy = 0
  /\ rkmessage = NULL
  /\ eof_since_data = 0
  /\ pc = "off"
  /\ rc = -1
  /\ exit_status = <<>>
  /\ polls = 0
  /\ last_flush = NoFlush
  /\ flush_count = [t \in FlushTimes |-> 0]
  /\ stats_flushes = <<>>
  /\ last_msg = NoMsg
  /\ pending = <<>>
  /\ bus = NoBus
  /\ tally = NoTally

\* rd_kafka_consumer_poll
Poll(ev) ==
  /\ rkmessage' = ev
  /\ polls' = IF ev = NULL THEN polls ELSE polls + 1

\* run, lines 547-560: one pass of the outer loop up to the poll
RunIterate ==
  /\ pc = "run"
  /\ \E f \in { maybe_flush([kp |-> kp, stats_kp |-> stats_kp,
                             current_time |-> current_time],
                            FORCE_FLUSH, flush_ok) : flush_ok \in BOOLEAN } :
       /\ kp' = f.kp
       /\ current_time' = f.current_time
       /\ last_flush' = NoteFlush(last_flush, pending, f.flushed)
       /\ flush_count' = NoteCount(flush_count, f.flushed)
       /\ pending' = IF f.flushed # <<>> THEN <<>> ELSE pending
       /\ IF f.rc # 0
          THEN /\ pc' = "cleanup"
               /\ stats_kp' = f.stats_kp
               /\ tally' = TallyFlush(tally, f.flushed)
               /\ UNCHANGED << stats_time, stats_flushes, rc, rkmessage, polls,
                               eof_since_data >>
          ELSE \E s \in { maybe_flush_stats([stats_kp |-> f.stats_kp,
                                             stats_time |-> stats_time],
                                            now, stats_interval, stats_ok) :
                          stats_ok \in BOOLEAN } :
               /\ stats_kp' = s.stats_kp
               /\ tally' = TallyStats(TallyFlush(tally, f.flushed), s)
               /\ stats_time' = s.stats_time
               /\ stats_flushes' = stats_flushes \o s.flushed
               /\ IF shutdown_proxy # 0
                  THEN /\ rc' = 0
                       /\ pc' = "cleanup"
                       /\ UNCHANGED << rkmessage, polls, eof_since_data >>
                  ELSE \E ev \in PollResults :
                       /\ Poll(ev)
                       /\ eof_since_data' = 0
                       /\ pc' = IF ev = NULL THEN "run" ELSE "burst"
                       /\ UNCHANGED rc
  /\ UNCHANGED << little_endian, lib_vars, codec_vars, kafka_vars, cfg, stats_interval, now,
                  shutdown_proxy, last_msg, exit_status, bus >>

\* run, lines 588-594: destroy the message, then poll again unless shutting
\* down; tl is the tally after the event just handled
BurstPoll(skp, tl) ==
  IF shutdown_proxy # 0
  THEN /\ stats_kp' = skp
       /\ tally' = TallyNone(tl)
       /\ pc' = "run"
       /\ UNCHANGED << rkmessage, polls, stats_time, stats_flushes >>
  ELSE \E ev \in PollResults :
       \E s \in { maybe_flush_stats([stats_kp |-> skp, stats_time |-> stats_time],
                                    now, stats_interval, stats_ok) :
                  stats_ok \in BOOLEAN } :
       /\ Poll(ev)
       /\ stats_kp' = s.stats_kp
       /\ tally' = TallyStats(tl, s)
       /\ stats_time' = s.stats_time
       /\ stats_flushes' = stats_flushes \o s.flushed
       /\ pc' = IF ev = NULL THEN "run" ELSE "burst"

\* run, lines 562-576: a data message in the burst loop
RunBurstData ==
  /\ pc = "burst"
  /\ rkmessage.err = "NONE"
  /\ \E h \in { handle_message(cfg, little_endian,
                               [kp |-> kp, stats_kp |-> stats_kp,
                                current_time |-> current_time],
                               rkmessage.payload, flush_ok, ub_benign) :
                flush_ok \in BOOLEAN, ub_benign \in BOOLEAN } :
       /\ kp' = h.kp
       /\ current_time' = h.current_time
       /\ last_flush' = NoteFlush(last_flush, pending, h.flushed)
       /\ flush_count' = NoteCount(flush_count, h.flushed)
       /\ pending' = NotePending(cfg, pending, h.flushed, h, rkmessage.sent)
       /\ last_msg' = [rc |-> h.rc, status |-> h.status,
                       flushed |-> h.flushed # <<>>,
                       kp_changed |-> h.kp # kp,
                       stats_changed |-> h.stats_kp # stats_kp,
                       time_changed |-> h.current_time # current_time,
                       len |-> Len(rkmessage.payload),
                       bad_header |-> FrameHeaderBad(rkmessage.payload),
                       channel |-> rkmessage.sent.channel,
                       decoded |-> h.decoded, written |-> h.written]
       /\ IF h.rc # 0 \/ h.status \in {"hang", "ub"}
          THEN /\ pc' = IF h.rc # 0 THEN "cleanup"
                        ELSE IF h.status = "hang" THEN "hung" ELSE "crashed"
               /\ stats_kp' = h.stats_kp
               /\ tally' = TallyMsg(TallyFlush(tally, h.flushed), h.status,
                                    Len(rkmessage.payload))
               /\ UNCHANGED << rkmessage, polls, stats_time, stats_flushes,
                               eof_since_data >>
          ELSE /\ eof_since_data' = 0
               /\ BurstPoll(h.stats_kp,
                            TallyMsg(TallyFlush(tally, h.flushed), h.status,
                                     Len(rkmessage.payload)))
  /\ UNCHANGED << little_endian, lib_vars, codec_vars, kafka_vars, cfg, stats_interval, now,
                  shutdown_proxy, rc, exit_status, bus >>

\* a partition EOF that is counted up to a limit of eleven
partition_eof_late(shutdown, eof) ==
  IF shutdown # 0 THEN [eof |-> eof, brk |-> TRUE]
  ELSE [eof |-> eof + 1, brk |-> eof + 1 >= 11]

\* run, lines 577-583: if (shutdown_proxy || ++eof_since_data >= 10) break;
\* the increment is not evaluated when shutdown_proxy is set
partition_eof(shutdown, eof) ==
  IF shutdown # 0 THEN [eof |-> eof, brk |-> TRUE]
  ELSE [eof |-> eof + 1, brk |-> eof + 1 >= 10]

\* run, lines 577-587: a partition EOF or another bus error in the burst loop
RunBurstEvent ==
  /\ pc = "burst"
  /\ rkmessage.err # "NONE"
  /\ IF rkmessage.err = "PARTITION_EOF"
     THEN LET e == partition_eof(shutdown_proxy, eof_since_data) IN
          /\ eof_since_data' = e.eof
          /\ IF e.brk
             THEN /\ pc' = "run"
                  /\ tally' = TallyNone(tally)
                  /\ UNCHANGED << stats_kp, rkmessage, polls, stats_time,
                                  stats_flushes >>
             ELSE BurstPoll(stats_kp, tally)
     ELSE /\ eof_since_data' = eof_since_data
          /\ BurstPoll(stats_kp, tally)
  /\ UNCHANGED << little_endian, lib_vars, codec_vars, kafka_vars, cfg, stats_interval, now,
                  shutdown_proxy, rc, kp, current_time, last_flush, flush_count,
                  pending, last_msg, exit_status, bus >>

\* run, lines 598-601: the final force-flush, whose failure is ignored; then
\* main, lines 839-850: the resources are freed and main returns rc
Cleanup ==
  /\ pc = "cleanup"
  /\ \E flush_ok \in BOOLEAN :
       LET P == [kp |-> kp, stats_kp |-> stats_kp, current_time |-> current_time]
           f == maybe_flush(P, FORCE_FLUSH, flush_ok)
       IN
       /\ kp' = f.kp
       /\ stats_kp' = f.stats_kp
       /\ current_time' = f.current_time
       /\ last_flush' = NoteFlush(last_flush, pending, f.flushed)
       /\ flush_count' = NoteCount(flush_count, f.flushed)
       /\ pending' = IF f.flushed # <<>> THEN <<>> ELSE pending
       /\ tally' = TallyFlush(tally, f.flushed)
  /\ pc' = "done"
  /\ exit_status' = <<rc>>
  /\ UNCHANGED << little_endian, lib_vars, codec_vars, kafka_vars, cfg, stats_time, stats_interval,
                  now, shutdown_proxy, rkmessage, eof_since_data, rc, polls,
                  stats_flushes, last_msg, bus >>

\* catch_sigint; the handler is installed by the first statement of main
catch_sigint ==
  /\ pc \in {"main", "run", "burst", "cleanup", "hung"}
  /\ shutdown_proxy' = shutdown_proxy + 1
  /\ exit_status' = sigint_exit(shutdown_proxy + 1)
  /\ pc' = IF sigint_exit(shutdown_proxy + 1) # <<>> THEN "exited" ELSE pc
  /\ tally' = TallyNone(tally)
  /\ UNCHANGED << little_endian, lib_vars, codec_vars, kafka_vars, cfg, kp, stats_kp, current_time,
                  stats_time, stats_interval, now, rkmessage, eof_since_data,
                  rc, polls, last_flush, flush_count, stats_flushes, last_msg,
                  pending, bus >>

\* main, lines 800-837, on a configuration file that provides every key
Main ==
  /\ pc = "main"
  /\ \E m \in { main_startup(argc, parsed, ConfigKeys, kafka_ok, ts_ok, stats_ok)
                : argc \in {1, 2}, parsed \in BOOLEAN, kafka_ok \in BOOLEAN,
                  ts_ok \in BOOLEAN, stats_ok \in BOOLEAN } :
       /\ pc' = IF m.status = "run" THEN "run" ELSE "init_failed"
       /\ exit_status' = m.exit
  /\ UNCHANGED << little_endian, lib_vars, codec_vars, kafka_vars, cfg, kp, stats_kp,
                  current_time, stats_time, stats_interval, now, shutdown_proxy,
                  rkmessage, eof_since_data, rc, polls, last_flush, flush_count,
                  stats_flushes, last_msg, pending, bus, tally >>

\* the wall clock read by time(NULL)
Tick ==
  /\ pc \in {"run", "burst"}
  /\ now < NowStart + bus.max_ticks
  /\ now' = now + 1
  /\ tally' = TallyNone(tally)
  /\ UNCHANGED << little_endian, lib_vars, codec_vars, kafka_vars, cfg, kp, stats_kp, current_time,
                  stats_time, stats_interval, shutdown_proxy, rkmessage,
                  eof_since_data, pc, rc, exit_status, polls, last_flush, flush_count,
                  stats_flushes, last_msg, pending, bus >>

MainIdle ==
  /\ m_pc = "off"
  /\ m_present = {}
  /\ m_exit = <<>>

\* no library call made yet
NoRet == [op |-> "none", rc |-> 0, key |-> <<>>, before |-> 0, failed |-> FALSE,
          index |-> 0, value |-> 0, time |-> 0, after_failed |-> FALSE]

KpIdle ==
  /\ l_pc = "off"
  /\ l_kp = [reset |-> 0, keys |-> <<>>, values |-> <<>>]
  /\ l_ret = NoRet
  /\ l_out = <<>>
  /\ l_calls = 0

\* no kp_flush made yet on either backend
NoEmit == [ascii |-> <<>>, kafka |-> <<>>]

EmitIdle ==
  /\ e_pc = "off"
  /\ e_kp = <<>>
  /\ e_time = 0
  /\ e_ascii = <<>>
  /\ e_rc = NoEmit
  /\ e_peak = 0

AsciiIdle ==
  /\ a_pc = "off"
  /\ a_st = [bulk_expect |-> 0, bulk_cnt |-> 0, bulk_time |-> 0]
  /\ a_out = <<>>
  /\ a_ret = <<>>
  /\ a_calls = 0

RegIdle ==
  /\ b_pc = "off"
  /\ b_slots = <<>>
  /\ b_name = <<>>
  /\ b_ret = <<>>

SendIdle ==
  /\ s_pc = "off"
  /\ s_buf = <<>>
  /\ s_full = FALSE
  /\ s_sent = <<>>
  /\ s_tries = 0

BatchIdle ==
  /\ t_pc = "off"
  /\ t_kp = <<>>
  /\ t_res = <<>>

MoreIdle == AsciiIdle /\ RegIdle /\ SendIdle /\ BatchIdle

\* no kafka_connect and no free made yet
NoGhost == [connect |-> <<>>, free |-> <<>>, calls |-> <<>>]

KafkaIdle ==
  /\ k_ghost = NoGhost
  /\ k_pc = "off"
  /\ kstate = [null |-> TRUE]
  /\ partition_cnt = 1
  /\ produced = <<>>
  /\ k_calls = 0

CodecIdle ==
  /\ c_pc = "off"
  /\ c_time = 0
  /\ c_channel = <<>>
  /\ c_kvs = <<>>
  /\ c_bytes = <<>>
  /\ c_dec = <<>>

(***************************************************************************)
(* Codec harness: encode with the Kafka backend, decode with the proxy     *)
(***************************************************************************)
MaxTuples == 2

CodecTimes == {0, 100, 1000000000}

CodecChannels == {<<>>, ch1}

\* a key that fills the decoder's key buffer: KEY_BUF_LEN times "k"
key_long == [i \in 1..KEY_BUF_LEN |-> 107]

CodecKeys == {<<>>, key_foo, key_long}

CodecValues == {0, 42, 258}

KvLists(n) == UNION { [1..m -> CodecKeys \X CodecValues] : m \in 0..n }

NoDec == [status |-> "none", rc |-> 0, time |-> -1, channel |-> <<>>,
          kvs |-> <<>>, written |-> <<>>]

\* the proxy configured for the channel the message was encoded with
MatchingConfig(channel) ==
  [kafka_channel |-> channel, kafka_chanlen |-> Len(channel), filters |-> <<>>,
   filter_lens |-> <<>>, filters_cnt |-> 0]

\* kp_flush / set_single, lines 764-781 and 810-821: header, then tuples
CodecEncode ==
  /\ c_pc = "start"
  /\ c_bytes' = encode_message(little_endian, c_time, c_channel, c_kvs)
  /\ c_pc' = "encoded"
  /\ UNCHANGED << little_endian, lib_vars, c_time, c_channel, c_kvs, c_dec, kafka_vars,
                  proxy_vars >>

\* handle_message on the encoded bytes, with a fresh key package
CodecDecode ==
  /\ c_pc = "encoded"
  /\ \E h \in { handle_message(MatchingConfig(c_channel), little_endian,
                               [kp |-> <<>>, stats_kp |-> <<>>, current_time |-> 0],
                               c_bytes, TRUE, ub_benign) : ub_benign \in BOOLEAN } :
       c_dec' = [status |-> h.status, rc |-> h.rc, time |-> h.hdr.time,
                 channel |-> h.hdr.channel, kvs |-> h.decoded,
                 written |-> h.written]
  /\ c_pc' = "decoded"
  /\ UNCHANGED << little_endian, lib_vars, c_time, c_channel, c_kvs, c_bytes, kafka_vars,
                  proxy_vars >>

CodecInit ==
  /\ little_endian \in BOOLEAN
  /\ c_pc = "start"
  /\ c_time \in CodecTimes
  /\ c_channel \in CodecChannels
  /\ c_kvs \in KvLists(MaxTuples)
  /\ c_bytes = <<>>
  /\ c_dec = NoDec
  /\ KafkaIdle
  /\ ProxyIdle
  /\ MainIdle /\ KpIdle /\ EmitIdle /\ MoreIdle

CodecNext == CodecEncode \/ CodecDecode

SpecCodec == CodecInit /\ [][CodecNext]_vars

(***************************************************************************)
(* Kafka backend: connect, partitioner, produce                            *)
(***************************************************************************)
CONNECT_MAX_RETRIES == 8

BUFFER_LEN == 1048576

FORMAT_ASCII == "ascii"

FORMAT_TSK == "tsk"

DEFAULT_FORMAT == FORMAT_TSK

\* RD_KAFKA_PARTITION_UA
DEFAULT_PARTITION == -1

NoState == [null |-> TRUE]

\* malloc_zero'd state after kafka_init's defaults and parse_args
NewState(format, channel_name) ==
  [format |-> format, channel_name |-> channel_name,
   channel_name_len |-> Len(channel_name), buffer |-> <<>>,
   connected |-> 0, fatal_error |-> 0, rdk_conn |-> FALSE, rkt |-> FALSE]

\* state->buffer_written: the bytes written to state->buffer so far
buffer_written(st) == Len(st.buffer)

\* kafka_error_callback
kafka_error_callback(st, err) ==
  IF err \in {"BAD_COMPRESSION", "RESOLVE"}
  THEN [st EXCEPT !.fatal_error = 1, !.connected = 0]
  ELSE IF err \in {"DESTROY", "FAIL", "TRANSPORT", "ALL_BROKERS_DOWN"}
  THEN [st EXCEPT !.connected = 0]
  ELSE st

\* what one producer_connect call can meet: a configuration or handle
\* error, or a poll that delivers no error, a recoverable one, a fatal one
ConnectOutcomes == {"conf_err", "up", "TRANSPORT", "RESOLVE"}

\* producer_connect under one outcome: [rc, st]
producer_connect(st, outcome) ==
  IF outcome = "conf_err" THEN [rc |-> -1, st |-> st]
  ELSE
    LET s1 == [st EXCEPT !.rdk_conn = TRUE, !.connected = 1]
        s2 == IF outcome = "up" THEN s1 ELSE kafka_error_callback(s1, outcome)
    IN [rc |-> s2.fatal_error, st |-> s2]

\* time_partitioner: key is the memory the key pointer refers to
time_partitioner(le, key, keylen, pcnt) ==
  LET time == HostVal(le, hton(le, key)) IN (time \div 60) % pcnt

\* topic_connect: [rc, st]; name_fits is whether prefix.channel fits
\* IDENTITY_MAX_LEN, topic_ok whether rd_kafka_topic_new returns a handle
topic_connect(st, name_fits, topic_ok) ==
  IF ~name_fits THEN [rc |-> -1, st |-> st]
  ELSE IF ~st.rkt
  THEN IF topic_ok THEN [rc |-> 0, st |-> [st EXCEPT !.rkt = TRUE]]
       ELSE [rc |-> -1, st |-> st]
  ELSE [rc |-> 0, st |-> st]

\* a connect loop whose wait doubles without the cap of 180 seconds
RECURSIVE connect_loop_nocap(_, _, _, _)
connect_loop_nocap(st, connect_retries, wait, waits) ==
  IF ~(st.connected = 0 /\ connect_retries > 0)
  THEN {[rc |-> 0, st |-> st, waits |-> waits,
         attempts |-> CONNECT_MAX_RETRIES - connect_retries]}
  ELSE UNION {
    LET r == producer_connect(st, o) IN
    IF r.rc # 0
    THEN {[rc |-> -1, st |-> r.st, waits |-> waits,
           attempts |-> CONNECT_MAX_RETRIES - connect_retries + 1]}
    ELSE IF r.st.connected = 0 /\ connect_retries - 1 > 0
    THEN connect_loop_nocap(r.st, connect_retries - 1, wait * 2,
                            Append(waits, wait))
    ELSE connect_loop_nocap(r.st, connect_retries - 1, wait, waits)
    : o \in ConnectOutcomes }

\* the loop of kafka_connect from the point where connect_retries attempts
\* are left and the next wait is wait: the set of [rc, st, waits, attempts]
\* it can end in (the topic is connected by kafka_connect below); waits are
\* the sleeps made, attempts the number of producer_connect calls made
RECURSIVE connect_loop(_, _, _, _)
connect_loop(st, connect_retries, wait, waits) ==
  IF ~(st.connected = 0 /\ connect_retries > 0)
  THEN {[rc |-> 0, st |-> st, waits |-> waits,
         attempts |-> CONNECT_MAX_RETRIES - connect_retries]}
  ELSE UNION {
    LET r == producer_connect(st, o) IN
    IF r.rc # 0
    THEN {[rc |-> -1, st |-> r.st, waits |-> waits,
           attempts |-> CONNECT_MAX_RETRIES - connect_retries + 1]}
    ELSE IF r.st.connected = 0 /\ connect_retries - 1 > 0
    THEN connect_loop(r.st, connect_retries - 1,
                      IF wait * 2 > 180 THEN 180 ELSE wait * 2,
                      Append(waits, wait))
    ELSE connect_loop(r.st, connect_retries - 1, wait, waits)
    : o \in ConnectOutcomes }

\* kafka_connect: the set of [rc, st, waits, attempts] it can end in
kafka_connect(st, name_fits, topic_ok) ==
  { IF c.rc # 0 THEN c
    ELSE IF c.st.connected = 0 THEN [c EXCEPT !.rc = -1]
    ELSE LET t == topic_connect(c.st, name_fits, topic_ok)
         IN [rc |-> t.rc, st |-> t.st, waits |-> c.waits,
             attempts |-> c.attempts]
    : c \in connect_loop(st, CONNECT_MAX_RETRIES, 10, <<>>) }

\* the partition rd_kafka_produce puts a message in when it is handed
\* DEFAULT_PARTITION: the topic's partitioner callback decides (TSK), or
\* the library's own partitioner does (ascii; left unassigned here)
produce_partition(st, le, key, pcnt) ==
  IF st.format = FORMAT_TSK THEN time_partitioner(le, key, Len(key), pcnt)
  ELSE DEFAULT_PARTITION

\* a SEND_MSG that leaves the buffer as it is when produce fails
SEND_MSG_keeps(st, le, time, pcnt, produce_ok) ==
  IF ~(buffer_written(st) > 0)
  THEN [rc |-> 0, st |-> st, out |-> <<>>]
  ELSE IF produce_ok
  THEN [rc |-> 0, st |-> [st EXCEPT !.buffer = <<>>],
        out |-> << [format |-> st.format, time |-> time,
                    key |-> HostImage(le, time, 4),
                    partition |-> produce_partition(st, le, HostImage(le, time, 4), pcnt),
                    payload |-> st.buffer] >>]
  ELSE [rc |-> -1, st |-> st, out |-> <<>>]

\* SEND_MSG: [rc, st, out]. produce_ok is whether rd_kafka_produce ends up
\* accepting the message (after any QUEUE_FULL retries) or fails otherwise
SEND_MSG(st, le, time, pcnt, produce_ok) ==
  IF ~(buffer_written(st) > 0)
  THEN [rc |-> 0, st |-> st, out |-> <<>>]
  ELSE IF produce_ok
  THEN [rc |-> 0, st |-> [st EXCEPT !.buffer = <<>>],
        out |-> << [format |-> st.format, time |-> time,
                    key |-> HostImage(le, time, 4),
                    partition |-> produce_partition(st, le, HostImage(le, time, 4), pcnt),
                    payload |-> st.buffer] >>]
  ELSE [rc |-> -1, st |-> [st EXCEPT !.buffer = <<>>], out |-> <<>>]

\* a SEND_IF_FULL that waits until the whole buffer is used
SEND_IF_FULL_whole(st, le, time, pcnt, produce_ok) ==
  IF buffer_written(st) > BUFFER_LEN
  THEN SEND_MSG(st, le, time, pcnt, produce_ok)
  ELSE [rc |-> 0, st |-> st, out |-> <<>>]

\* SEND_IF_FULL
SEND_IF_FULL(st, le, time, pcnt, produce_ok) ==
  IF buffer_written(st) > BUFFER_LEN \div 2
  THEN SEND_MSG(st, le, time, pcnt, produce_ok)
  ELSE [rc |-> 0, st |-> st, out |-> <<>>]

\* write_ascii: "<key> <value> <time>\n", numbers kept as numbers
write_ascii(key, value, time) == << CStr(key), 32, value, 32, time, 10 >>

\* the record one enabled key adds to the buffer in kp_flush
write_record(st, le, key, value, time) ==
  IF st.format = FORMAT_ASCII
  THEN [st EXCEPT !.buffer = @ \o write_ascii(key, value, time)]
  ELSE
    LET h == IF buffer_written(st) = 0
             THEN write_header(le, time, st.channel_name, st.channel_name_len)
             ELSE <<>>
    IN [st EXCEPT !.buffer = @ \o h \o write_kv(le, key, value)]

\* the assertions write_header (through SERIALIZE_VAL too) makes on len, the
\* room left in the buffer
header_asserts(len) ==
  /\ HEADER_MAGIC_LEN < len
  /\ len - HEADER_MAGIC_LEN >= 1
  /\ len - (HEADER_MAGIC_LEN + 1) >= 4
  /\ len - (HEADER_MAGIC_LEN + 1 + 4) >= 2

\* the capacity assertions write_kv (through SERIALIZE_VAL too) makes
kv_asserts(len, key_len) ==
  /\ key_len + 2 + 8 <= len
  /\ len >= 2
  /\ len - (2 + key_len) >= 8

\* the assertion that stops kp_flush before it writes the record of key into
\* the TSK buffer, "no" if none does
record_asserts(st, key) ==
  IF st.format = FORMAT_ASCII THEN "no"
  ELSE
    LET hlen == IF buffer_written(st) = 0
                THEN HEADER_MAGIC_LEN + 1 + 4 + 2 + st.channel_name_len ELSE 0
    IN
    IF buffer_written(st) = 0 /\ ~header_asserts(BUFFER_LEN - buffer_written(st))
    THEN "capacity"
    ELSE IF ~(Len(CStr(key)) < UINT16_MAX) THEN "key_len"
    ELSE IF ~kv_asserts(BUFFER_LEN - (buffer_written(st) + hlen), Len(CStr(key)))
    THEN "capacity"
    ELSE "no"

\* a loop that writes the disabled records too
RECURSIVE kp_flush_loop_all(_, _, _, _, _, _, _)
kp_flush_loop_all(st, le, k, i, time, pcnt, produce_ok) ==
  IF i > Len(k)
  THEN [rc |-> 0, st |-> st, out |-> <<>>, peak |-> buffer_written(st),
        abort |-> "no"]
  ELSE
    LET s1 == write_record(st, le, k[i].key, k[i].value, time)
        f == SEND_IF_FULL(s1, le, time, pcnt, produce_ok)
    IN
    IF f.rc # 0
    THEN [rc |-> f.rc, st |-> f.st, out |-> f.out, peak |-> buffer_written(s1),
          abort |-> "no"]
    ELSE LET r == kp_flush_loop_all(f.st, le, k, i + 1, time, pcnt, produce_ok)
         IN [rc |-> r.rc, st |-> r.st, out |-> f.out \o r.out,
             peak |-> IF buffer_written(s1) > r.peak THEN buffer_written(s1)
                      ELSE r.peak,
             abort |-> r.abort]

\* the TIMESERIES_KP_FOREACH_KI loop of kp_flush over the records k[i..];
\* peak is the largest buffer_written reached, abort the assertion that
\* ended the process ("no": none; the keys the other actions pass are short)
RECURSIVE kp_flush_loop(_, _, _, _, _, _, _)
kp_flush_loop(st, le, k, i, time, pcnt, produce_ok) ==
  IF i > Len(k)
  THEN [rc |-> 0, st |-> st, out |-> <<>>, peak |-> buffer_written(st),
        abort |-> "no"]
  ELSE IF ~k[i].enabled
  THEN kp_flush_loop(st, le, k, i + 1, time, pcnt, produce_ok)
  ELSE IF record_asserts(st, k[i].key) # "no"
  THEN [rc |-> -1, st |-> st, out |-> <<>>, peak |-> buffer_written(st),
        abort |-> record_asserts(st, k[i].key)]
  ELSE
    LET s1 == write_record(st, le, k[i].key, k[i].value, time)
        f == SEND_IF_FULL(s1, le, time, pcnt, produce_ok)
    IN
    IF f.rc # 0
    THEN [rc |-> f.rc, st |-> f.st, out |-> f.out, peak |-> buffer_written(s1),
          abort |-> "no"]
    ELSE LET r == kp_flush_loop(f.st, le, k, i + 1, time, pcnt, produce_ok)
         IN [rc |-> r.rc, st |-> r.st, out |-> f.out \o r.out,
             peak |-> IF buffer_written(s1) > r.peak THEN buffer_written(s1)
                      ELSE r.peak,
             abort |-> r.abort]

\* a kp_flush without the SEND_MSG after the loop
kafka_kp_flush_notrail(st, le, k, time, pcnt, produce_ok) ==
  kp_flush_loop(st, le, k, 1, time, pcnt, produce_ok)

\* timeseries_backend_kafka_kp_flush: [rc, st, out, peak, abort]
kafka_kp_flush(st, le, k, time, pcnt, produce_ok) ==
  LET l == kp_flush_loop(st, le, k, 1, time, pcnt, produce_ok) IN
  IF buffer_written(st) # 0
  THEN [rc |-> -1, st |-> st, out |-> <<>>, peak |-> buffer_written(st),
        abort |-> "entry"]
  ELSE IF l.rc # 0 THEN l
  ELSE LET f == SEND_MSG(l.st, le, time, pcnt, produce_ok)
       IN [rc |-> f.rc, st |-> f.st, out |-> l.out \o f.out, peak |-> l.peak,
           abort |-> "no"]

\* timeseries_backend_kafka_set_single: [rc, st, out]
kafka_set_single(st, le, key, value, time, pcnt, produce_ok) ==
  LET rec == IF st.format = FORMAT_ASCII
             THEN write_ascii(key, value, time)
             ELSE write_header(le, time, st.channel_name, st.channel_name_len)
                    \o write_kv(le, key, value)
  IN SEND_MSG([st EXCEPT !.buffer = @ \o rec], le, time, pcnt, produce_ok)

\* ---- the calls made on the backend
MaxCalls == 2

PartitionCounts == {6, 7}

KafkaTimes == {60, 120, 121}

\* key packages handed to kp_flush
KafkaKPs ==
  { <<>>,
    << [key |-> key_foo, value |-> 42, enabled |-> TRUE] >>,
    << [key |-> key_ax, value |-> 1, enabled |-> FALSE],
       [key |-> key_by, value |-> 2, enabled |-> TRUE] >> }

\* timeseries_backend_kafka_init
KafkaInit ==
  /\ k_pc = "uninit"
  /\ \E format \in {FORMAT_ASCII, FORMAT_TSK}, args_ok \in BOOLEAN,
        name_fits \in BOOLEAN, topic_ok \in BOOLEAN :
       IF ~args_ok
       THEN /\ kstate' = NewState(DEFAULT_FORMAT, <<>>)
            /\ k_pc' = "failed"
            /\ k_ghost' = k_ghost
       ELSE \E c \in kafka_connect(NewState(format, ch1), name_fits, topic_ok) :
            /\ k_ghost' = [k_ghost EXCEPT !.connect = << c >>]
            /\ IF c.rc # 0
               THEN /\ kstate' = NoState    \* err: timeseries_backend_kafka_free
                    /\ k_pc' = "failed"
               ELSE /\ kstate' = c.st
                    /\ k_pc' = "ready"
  /\ UNCHANGED << little_endian, lib_vars, codec_vars, proxy_vars, partition_cnt,
                  produced, k_calls >>

\* librdkafka calls the error callback from a poll
KafkaError ==
  /\ k_pc = "ready"
  /\ \E err \in {"RESOLVE", "TRANSPORT", "ALL_BROKERS_DOWN", "OTHER"} :
       kstate' = kafka_error_callback(kstate, err)
  /\ kstate' # kstate
  /\ UNCHANGED << little_endian, lib_vars, codec_vars, proxy_vars, k_pc, partition_cnt,
                  produced, k_calls, k_ghost >>

\* timeseries_backend_kafka_kp_flush
KafkaKpFlush ==
  /\ k_pc = "ready"
  /\ k_calls < MaxCalls
  /\ \E k \in KafkaKPs, time \in KafkaTimes, produce_ok \in BOOLEAN :
       LET r == kafka_kp_flush(kstate, little_endian, k, time, partition_cnt,
                               produce_ok)
       IN /\ kstate' = r.st
          /\ produced' = produced \o r.out
          /\ k_ghost' = [k_ghost EXCEPT !.calls =
                           Append(@, [entry |-> buffer_written(kstate),
                                      rc |-> r.rc])]
  /\ k_calls' = k_calls + 1
  /\ UNCHANGED << little_endian, lib_vars, codec_vars, proxy_vars, k_pc, partition_cnt >>

\* timeseries_backend_kafka_set_single
KafkaSetSingle ==
  /\ k_pc = "ready"
  /\ k_calls < MaxCalls
  /\ \E time \in KafkaTimes, produce_ok \in BOOLEAN :
       LET r == kafka_set_single(kstate, little_endian, key_foo, 42, time,
                                 partition_cnt, produce_ok)
       IN /\ kstate' = r.st
          /\ produced' = produced \o r.out
          /\ k_ghost' = [k_ghost EXCEPT !.calls =
                           Append(@, [entry |-> buffer_written(kstate),
                                      rc |-> r.rc])]
  /\ k_calls' = k_calls + 1
  /\ UNCHANGED << little_endian, lib_vars, codec_vars, proxy_vars, k_pc, partition_cnt >>

\* drain_wait_cnt of timeseries_backend_kafka_free
DRAIN_WAIT_CNT == 12

\* the timeout of the polls that wait for the queue to drain (ms)
DRAIN_POLL_MS == 5000

\* a drain loop that polls on although the queue is empty
RECURSIVE drain_loop_all(_, _, _, _)
drain_loop_all(outq, drain_wait_cnt, npolls, idle) ==
  IF ~(drain_wait_cnt > 0) THEN {[left |-> outq, polls |-> npolls, idle |-> idle]}
  ELSE UNION { drain_loop_all(q, drain_wait_cnt - 1, npolls + 1,
                              IF outq = 0 THEN idle + 1 ELSE idle)
               : q \in 0..outq }

\* the while loop of timeseries_backend_kafka_free with outq messages in the
\* out-queue: each rd_kafka_poll(5000) delivers any number of them. The set
\* of [left, polls, idle] it can end in: left is what stays queued, polls
\* the number of polls made, idle how many of them found the queue empty
RECURSIVE drain_loop(_, _, _, _)
drain_loop(outq, drain_wait_cnt, npolls, idle) ==
  IF ~(outq > 0 /\ drain_wait_cnt > 0)
  THEN {[left |-> outq, polls |-> npolls, idle |-> idle]}
  ELSE UNION { drain_loop(q, drain_wait_cnt - 1, npolls + 1,
                          IF outq = 0 THEN idle + 1 ELSE idle)
               : q \in 0..outq }

\* timeseries_backend_kafka_free on a state with outq messages left after the
\* first poll: the set of [noop, st, had, left, polls, idle, waited,
\* rkt_destroyed, conn_destroyed] it can end in; had is the state it was
\* called on, waited the longest time spent in the polls (ms)
kafka_free(st, outq) ==
  IF st = NoState
  THEN {[noop |-> TRUE, st |-> NoState, had |-> st, left |-> 0, polls |-> 0,
         idle |-> 0, waited |-> 0, rkt_destroyed |-> FALSE,
         conn_destroyed |-> FALSE]}
  ELSE
    { [noop |-> FALSE, st |-> NoState, had |-> st, left |-> d.left,
       polls |-> d.polls, idle |-> d.idle, waited |-> d.polls * DRAIN_POLL_MS,
       rkt_destroyed |-> st.rkt, conn_destroyed |-> st.rdk_conn]
      : d \in IF st.rdk_conn THEN drain_loop(outq, DRAIN_WAIT_CNT, 0, 0)
              ELSE {[left |-> 0, polls |-> 0, idle |-> 0]} }

\* timeseries_backend_kafka_free, as timeseries_free calls it on every
\* backend, initialised or not; of what was produced, one message may still
\* be in the out-queue
KafkaFree ==
  /\ k_pc \in {"uninit", "ready", "failed"}
  /\ \E outq \in 0..Min(1, Len(produced)) :
       \E f \in kafka_free(kstate, outq) :
         /\ kstate' = f.st
         /\ k_ghost' = [k_ghost EXCEPT !.free = << f >>]
  /\ k_pc' = "freed"
  /\ UNCHANGED << little_endian, lib_vars, codec_vars, proxy_vars, partition_cnt,
                  produced, k_calls >>

KafkaInitState ==
  /\ k_ghost = NoGhost
  /\ little_endian \in BOOLEAN
  /\ CodecIdle
  /\ ProxyIdle
  /\ MainIdle /\ KpIdle /\ EmitIdle /\ MoreIdle
  /\ k_pc = "uninit"
  /\ kstate = NoState
  /\ partition_cnt \in PartitionCounts
  /\ produced = <<>>
  /\ k_calls = 0

KafkaNext ==
  KafkaInit \/ KafkaError \/ KafkaKpFlush \/ KafkaSetSingle \/ KafkaFree

SpecKafka == KafkaInitState /\ [][KafkaNext]_vars

ProxyInit ==
  /\ little_endian = TRUE
  /\ CodecIdle
  /\ KafkaIdle
  /\ MainIdle /\ KpIdle /\ EmitIdle /\ MoreIdle
  /\ ProxyStart

ProxyNext ==
  Main \/ RunIterate \/ RunBurstData \/ RunBurstEvent \/ Cleanup \/ catch_sigint
    \/ Tick

SpecProxy == ProxyInit /\ [][ProxyNext]_vars

(***************************************************************************)
(* Properties of the proxy                                                 *)
(***************************************************************************)
\* a step of the burst loop that handles the data message just polled
\* (catch_sigint changes shutdown_proxy and Tick changes now)
HandlesMessage ==
  /\ pc = "burst"
  /\ rkmessage.err = "NONE"
  /\ shutdown_proxy' = shutdown_proxy
  /\ now' = now

\* the tuples of a list whose keys start with a configured prefix
Passing(cf, kvs) == SelectSeq(kvs, LAMBDA t : PassFilter(cf, t[1]))

\* C1 (as stated): the data KP is flushed at most once with any given
\* timestamp, whatever messages, timeouts and EOF events are consumed.
C1_AtMostOncePerTimestamp == \A t \in FlushTimes : flush_count[t] <= 1

\* C1 (amended): a flush at t1 is never triggered by a message that carries
\* t1; it is triggered by a maybe_flush call whose time differs from t1 (a
\* message with t2 # t1, or FORCE_FLUSH), and a message that carries the
\* current timestamp flushes nothing.
C1_FlushOnlyOnOtherTime ==
  /\ [](last_flush # NoFlush =>
          /\ last_flush.time # 0
          /\ last_flush.trigger # last_flush.time)
  /\ [][ (HandlesMessage /\ ~FrameHeaderBad(rkmessage.payload)
            /\ rkmessage.sent.time = current_time)
          => (flush_count' = flush_count /\ last_flush' = last_flush) ]_vars

C1_Witness ==
  /\ last_flush.time = 100
  /\ last_flush.trigger = 160
  /\ last_flush.kvs = << <<key_ax, 1>>, <<key_by, 2>> >>
  /\ flush_count[100] = 1

\* C2: a flush at timestamp t writes exactly the filtered keys of the
\* accepted messages with timestamp t received since the previous flush,
\* each with the value of its last tuple; keys seen only under another
\* timestamp are not written.
C2_FlushIsUnionOfTimestamp ==
  last_flush # NoFlush =>
    { <<kv[1], kv[2]>> : kv \in { last_flush.kvs[i] : i \in 1..Len(last_flush.kvs) } }
      = { <<k, last_flush.expect[k][1]>> :
            k \in { x \in DOMAIN last_flush.expect :
                      last_flush.expect[x][2] = last_flush.time } }

C4_OtherChannelSkipped ==
  (last_msg.status # "none" /\ ~last_msg.bad_header
     /\ last_msg.channel # cfg.kafka_channel)
  => /\ last_msg.status = "channel_mismatch"
     /\ last_msg.rc = 0
     /\ ~last_msg.kp_changed
     /\ ~last_msg.flushed
     /\ ~last_msg.stats_changed

\* C5: a message shorter than 15 bytes, shorter than 15 + its announced
\* channel length, or with a version byte other than 0 is rejected:
\* handle_message returns 0, the data KP, the current timestamp and the
\* stats counters are untouched, nothing is flushed, and the loop goes on.
C5_BadHeaderRejected ==
  /\ []((last_msg.status # "none" /\ last_msg.bad_header) =>
          /\ last_msg.status \in {"truncated", "bad_version", "short_channel"}
          /\ last_msg.rc = 0
          /\ ~last_msg.kp_changed
          /\ ~last_msg.time_changed
          /\ ~last_msg.stats_changed
          /\ ~last_msg.flushed)
  /\ [][ (HandlesMessage /\ FrameHeaderBad(rkmessage.payload))
          => /\ kp' = kp
             /\ current_time' = current_time
             /\ flush_count' = flush_count
             /\ pc' \in {"run", "burst"}
             /\ rc' = rc ]_vars

C5_Witness ==
  /\ last_msg.bad_header
  /\ last_msg.status = "bad_version"
  /\ kp # <<>>
  /\ pc \in {"run", "burst"}

\* C6: handle_message terminates for every payload; the tuple loop exits
\* after finitely many iterations also when fewer than 2 bytes are left
\* for a key length or fewer than 8 for a value.
C6_HandleMessageTerminates == pc # "hung" /\ last_msg.status # "hang"

(***************************************************************************)
(* Properties of the codec                                                 *)
(***************************************************************************)
\* big-endian digits of x on n bytes
RECURSIVE BEBytes(_, _)
BEBytes(x, n) == IF n = 0 THEN <<>> ELSE BEBytes(x \div 256, n - 1) \o <<x % 256>>

RECURSIVE WireTuples(_)
WireTuples(kvs) ==
  IF kvs = <<>> THEN <<>>
  ELSE BEBytes(Len(kvs[1][1]), 2) \o kvs[1][1] \o BEBytes(kvs[1][2], 8)
         \o WireTuples(Tail(kvs))

\* the documented layout of a TSK message
WireLayout(time, channel, kvs) ==
  <<84, 83, 75, 66, 65, 84, 67, 72>> \o <<0>> \o BEBytes(time, 4)
    \o BEBytes(Len(channel), 2) \o channel \o WireTuples(kvs)

\* 54 53 4B 42 41 54 43 48 00 3B 9A CA 00 00 03 63 68 31 00 03 66 6F 6F
\* 00 00 00 00 00 00 00 2A
ExampleBytes ==
  << 84, 83, 75, 66, 65, 84, 67, 72, 0, 59, 154, 202, 0, 0, 3, 99, 104, 49,
     0, 3, 102, 111, 111, 0, 0, 0, 0, 0, 0, 0, 42 >>

IsExample ==
  /\ c_pc # "start"
  /\ c_time = 1000000000
  /\ c_channel = ch1
  /\ c_kvs = << <<key_foo, 42>> >>

\* C7: for every time, channel and list of (key, value) with keys shorter
\* than 2^16 bytes, the proxy decoder accepts the encoder's bytes and yields
\* the same time, channel and (key, value) sequence.
C7_RoundTrip ==
  c_pc = "decoded" =>
    /\ c_dec.status = "ok"
    /\ c_dec.rc = 0
    /\ c_dec.time = c_time
    /\ c_dec.channel = c_channel
    /\ c_dec.kvs = c_kvs
    /\ c_dec.written = c_kvs

\* C8 (as stated): the encoded message has the documented layout and the
\* example encodes to a message of 30 bytes.
C8_ExampleIs30Bytes ==
  /\ c_pc # "start" => c_bytes = WireLayout(c_time, c_channel, c_kvs)
  /\ IsExample => Len(c_bytes) = 30

\* C8 (amended): the encoded message is "TSKBATCH", a version byte 0, the
\* big-endian u32 time, the big-endian u16 channel length, the channel, then
\* per tuple a big-endian u16 key length, the key and a big-endian u64 value,
\* on either host byte order; the example encodes to the 31 listed bytes.
C8_WireLayout ==
  /\ c_pc # "start" =>
       /\ c_bytes = WireLayout(c_time, c_channel, c_kvs)
       /\ SubSeq(c_bytes, 1, HEADER_LEN + Len(c_channel))
            = WireLayout(c_time, c_channel, <<>>)
  /\ IsExample => (c_bytes = ExampleBytes /\ Len(c_bytes) = 31)

C8_Witness == IsExample /\ little_endian /\ c_bytes = ExampleBytes

(***************************************************************************)
(* Properties of the Kafka backend                                         *)
(***************************************************************************)
\* C9: every TSK message produced for flush timestamp time goes to
\* partition (time / 60) mod partition_count.
C9_TimePartition ==
  \A i \in 1..Len(produced) :
     produced[i].format = FORMAT_TSK =>
       produced[i].partition = (produced[i].time \div 60) % partition_cnt

\* C10: connecting to a topic whose partition count divides 60 does not
\* end in a usable connected backend, so no TSK message is ever
\* partitioned with such a count.
C10_PartitionCountChecked ==
  /\ (k_pc = "ready" /\ kstate.format = FORMAT_TSK /\ kstate.connected = 1
        /\ kstate.rkt) => 60 % partition_cnt # 0
  /\ \A i \in 1..Len(produced) :
        produced[i].format = FORMAT_TSK => 60 % partition_cnt # 0

(***************************************************************************)
(* ASCII backend, and one key package flushed through both backends        *)
(***************************************************************************)
\* PRINT_METRIC: "%s %PRIu64 %s\n"; time is the text snprintf put in
\* time_buffer, which holds every 32-bit time (at most 10 digits)
PRINT_METRIC(key, value, time) == << CStr(key), 32, value, 32, time, 10 >>

\* the TIMESERIES_KP_FOREACH_KI loop of the ASCII kp_flush over k[i..]
RECURSIVE ascii_flush_loop(_, _, _)
ascii_flush_loop(k, i, time_buffer) ==
  IF i > Len(k) THEN <<>>
  ELSE (IF k[i].enabled
        THEN << PRINT_METRIC(k[i].key, k[i].value, time_buffer) >>
        ELSE <<>>)
         \o ascii_flush_loop(k, i + 1, time_buffer)

\* timeseries_backend_ascii_kp_flush: out is what was written to the file
ascii_kp_flush(out, k, time) ==
  [rc |-> 0, out |-> out \o ascii_flush_loop(k, 1, time)]

MaxEmitKeys == 3

EmitValues == {0, 42}

EmitTimes == {0, 100}

\* key packages of up to MaxEmitKeys distinct keys
EmitKPs ==
  UNION { { k \in [1..n -> [key : {key_ax, key_by, key_foo}, value : EmitValues,
                            enabled : BOOLEAN]] :
              \A i, j \in 1..n : k[i].key = k[j].key => i = j }
          : n \in 0..MaxEmitKeys }

EmitAscii ==
  /\ e_pc = "emit"
  /\ e_rc.ascii = <<>>
  /\ LET r == ascii_kp_flush(e_ascii, e_kp, e_time) IN
       /\ e_ascii' = r.out
       /\ e_rc' = [e_rc EXCEPT !.ascii = <<r.rc>>]
  /\ UNCHANGED << little_endian, more_vars, codec_vars, kafka_vars, proxy_vars, main_vars,
                  lkp_vars, e_pc, e_kp, e_time, e_peak >>

EmitKafka ==
  /\ e_pc = "emit"
  /\ e_rc.kafka = <<>>
  /\ \E produce_ok \in BOOLEAN :
       LET r == kafka_kp_flush(kstate, little_endian, e_kp, e_time,
                               partition_cnt, produce_ok)
       IN /\ kstate' = r.st
          /\ produced' = produced \o r.out
          /\ e_rc' = [e_rc EXCEPT !.kafka = <<r.rc>>]
          /\ e_peak' = r.peak
  /\ UNCHANGED << little_endian, more_vars, codec_vars, proxy_vars, main_vars,
                  lkp_vars, k_pc, partition_cnt, k_calls, k_ghost, e_pc, e_kp,
                  e_time, e_ascii >>

\* both backends enabled, the Kafka backend connected
EmitInit ==
  /\ little_endian \in BOOLEAN
  /\ CodecIdle /\ ProxyIdle /\ MainIdle /\ KpIdle /\ MoreIdle
  /\ k_ghost = NoGhost
  /\ e_peak = 0
  /\ k_pc = "ready"
  /\ \E format \in {FORMAT_ASCII, FORMAT_TSK} :
       kstate = [NewState(format, ch1) EXCEPT !.connected = 1, !.rdk_conn = TRUE,
                                              !.rkt = TRUE]
  /\ partition_cnt = 7
  /\ produced = <<>>
  /\ k_calls = 0
  /\ e_pc = "emit"
  /\ e_kp \in EmitKPs
  /\ e_time \in EmitTimes
  /\ e_ascii = <<>>
  /\ e_rc = NoEmit

EmitNext == EmitAscii \/ EmitKafka

SpecEmit == EmitInit /\ [][EmitNext]_vars

(***************************************************************************)
(* libtimeseries.c: the key package (keys, values, reset flag)             *)
(***************************************************************************)
\* timeseries_kp_init
timeseries_kp_init(reset) == [reset |-> reset, keys |-> <<>>, values |-> <<>>]

\* timeseries_kp_add_key: alloc is "ok", or the realloc that fails (the
\* failed realloc's NULL overwrites the array pointer; no call is modelled
\* on the KP after that)
timeseries_kp_add_key(k, key, alloc) ==
  IF alloc # "ok" THEN [kp |-> k, rc |-> -1]
  ELSE [kp |-> [k EXCEPT !.keys = Append(@, key), !.values = Append(@, 0)],
        rc |-> -1]

\* timeseries_kp_set: key is the uint32_t index (a negative int converts to a
\* value above every keys_cnt); the assert ends the process
timeseries_kp_set(k, key, value) ==
  IF key < 0 \/ key >= Len(k.keys) THEN [kp |-> k, status |-> "abort"]
  ELSE [kp |-> [k EXCEPT !.values[key + 1] = value], status |-> "ok"]

\* what a backend's kp_flush is handed: every key with its value
kp_records(k, time) ==
  [i \in 1..Len(k.keys) |-> [key |-> k.keys[i], value |-> k.values[i], time |-> time]]

\* a timeseries_kp_flush that never resets the values
timeseries_kp_flush_noreset(k, backend_rc) == [kp |-> k, rc |-> backend_rc]

\* a timeseries_kp_flush that resets the values whatever the backend returned
timeseries_kp_flush_resets(k, backend_rc) ==
  [kp |-> IF k.reset # 0
          THEN [k EXCEPT !.values = [i \in 1..Len(k.values) |-> 0]]
          ELSE k,
   rc |-> backend_rc]

\* timeseries_kp_flush: backend_rc is what backend->kp_flush returned
timeseries_kp_flush(k, backend_rc) ==
  [kp |-> IF backend_rc = 0 /\ k.reset # 0
          THEN [k EXCEPT !.values = [i \in 1..Len(k.values) |-> 0]]
          ELSE k,
   rc |-> backend_rc]

MaxKpCalls == 4

MaxKeys == 3

key_k == <<107>>                \* "k"

key_j == <<106>>                \* "j"

KpKeys == {key_k, key_j}

KpValues == {9, 3}

KpTimes == {10}

KpInit ==
  /\ l_pc = "none"
  /\ \E reset \in {0, 1} : l_kp' = timeseries_kp_init(reset)
  /\ l_pc' = "live"
  /\ UNCHANGED << little_endian, more_vars, codec_vars, kafka_vars, proxy_vars, main_vars,
                  emit_vars, l_ret, l_out, l_calls >>

KpAddKey ==
  /\ l_pc = "live"
  /\ l_calls < MaxKpCalls
  /\ Len(l_kp.keys) < MaxKeys
  /\ \E key \in KpKeys, alloc \in {"ok", "keys", "values"} :
       LET r == timeseries_kp_add_key(l_kp, key, alloc) IN
       /\ l_kp' = r.kp
       /\ l_ret' = [NoRet EXCEPT !.op = "add_key", !.rc = r.rc, !.key = key,
                                  !.before = Len(l_kp.keys),
                                  !.failed = (alloc # "ok")]
       /\ l_pc' = IF alloc = "ok" THEN "live" ELSE "oom"
  /\ l_calls' = l_calls + 1
  /\ UNCHANGED << little_endian, more_vars, codec_vars, kafka_vars, proxy_vars, main_vars,
                  emit_vars, l_out >>

KpSet ==
  /\ l_pc = "live"
  /\ l_calls < MaxKpCalls
  /\ \E key \in {l_ret.rc} \cup (0..(Len(l_kp.keys) - 1)), value \in KpValues :
       LET r == timeseries_kp_set(l_kp, key, value) IN
       /\ l_kp' = r.kp
       /\ l_ret' = [NoRet EXCEPT !.op = "set", !.index = key, !.value = value,
                                  !.failed = (r.status # "ok")]
       /\ l_pc' = IF r.status = "ok" THEN "live" ELSE "aborted"
  /\ l_calls' = l_calls + 1
  /\ UNCHANGED << little_endian, more_vars, codec_vars, kafka_vars, proxy_vars, main_vars,
                  emit_vars, l_out >>

\* timeseries_kp_flush on a backend whose kp_flush writes every record and
\* returns 0, or writes nothing and returns -1
KpFlush ==
  /\ l_pc = "live"
  /\ l_calls < MaxKpCalls
  /\ \E time \in KpTimes, backend_rc \in {0, -1} :
       LET r == timeseries_kp_flush(l_kp, backend_rc) IN
       /\ l_kp' = r.kp
       /\ l_out' = IF backend_rc = 0 THEN l_out \o kp_records(l_kp, time) ELSE l_out
       /\ l_ret' = [NoRet EXCEPT !.op = "flush", !.rc = r.rc, !.time = time,
                                  !.failed = (backend_rc # 0),
                                  !.after_failed =
                                     (l_ret.op = "flush" /\ l_ret.failed)]
  /\ l_calls' = l_calls + 1
  /\ UNCHANGED << little_endian, more_vars, codec_vars, kafka_vars, proxy_vars, main_vars,
                  emit_vars, l_pc >>

KpStart ==
  /\ little_endian = TRUE
  /\ CodecIdle /\ KafkaIdle /\ ProxyIdle /\ MainIdle /\ EmitIdle /\ MoreIdle
  /\ l_pc = "none"
  /\ l_kp = [reset |-> 0, keys |-> <<>>, values |-> <<>>]
  /\ l_ret = NoRet
  /\ l_out = <<>>
  /\ l_calls = 0

KpNext == KpInit \/ KpAddKey \/ KpSet \/ KpFlush

SpecKP == KpStart /\ [][KpNext]_vars

(***************************************************************************)
(* tsk-proxy start-up on a configuration file with any subset of the keys  *)
(***************************************************************************)
\* main, lines 800-837.  The division by the zero stats_interval in
\* init_stats_timeseries is undefined: it traps, or run starts on whatever
\* value the division left in stats_time.
MainStart ==
  /\ m_pc = "start"
  /\ \E m \in { main_startup(argc, parsed, m_present, kafka_ok, ts_ok, stats_ok)
                : argc \in {1, 2}, parsed \in BOOLEAN, kafka_ok \in BOOLEAN,
                  ts_ok \in BOOLEAN, stats_ok \in BOOLEAN } :
       /\ m_pc' \in IF m.status = "div_by_zero" THEN {"crashed", "run"}
                     ELSE {m.status}
       /\ m_exit' = m.exit
  /\ UNCHANGED << little_endian, more_vars, codec_vars, kafka_vars, proxy_vars, lkp_vars,
                  emit_vars, m_present >>

MainInit ==
  /\ little_endian = TRUE
  /\ CodecIdle /\ KafkaIdle /\ ProxyIdle /\ KpIdle /\ EmitIdle /\ MoreIdle
  /\ m_pc = "start"
  /\ m_present \in SUBSET ConfigKeys
  /\ m_exit = <<>>

MainNext == MainStart

SpecMain == MainInit /\ [][MainNext]_vars

(***************************************************************************)
(* Properties of the proxy's shutdown, exit status and start-up            *)
(***************************************************************************)
\* C11: once a SIGINT has been counted the run loop handles at most one more
\* message, the process does not stay in the tuple loop for ever, and when
\* run has returned 0 no key of the data KP is still enabled (unflushed).
C11_GracefulShutdown ==
  /\ [](shutdown_proxy >= 1 => pc # "hung")
  /\ []((pc = "done" /\ rc = 0 /\ shutdown_proxy >= 1) => kp_enabled_size(kp) = 0)
  /\ [][(shutdown_proxy >= 1 /\ HandlesMessage) => pc' # "burst"]_vars

\* C12: the process is ended by the signal handler exactly when the third
\* SIGINT is counted, from whatever state (start-up, polling, handling,
\* cleanup, stuck tuple loop); nothing happens after that (no message is
\* handled, no flush is started); the first and the second SIGINT change
\* the counter and nothing else.
C12_ThirdSigintExits ==
  /\ [](pc = "exited" <=> shutdown_proxy >= 3)
  /\ [][pc # "exited"]_vars
  /\ [][shutdown_proxy' # shutdown_proxy =>
          /\ shutdown_proxy' = shutdown_proxy + 1
          /\ shutdown_proxy' < 3 =>
               UNCHANGED << pc, exit_status, rc, kp, stats_kp, current_time,
                            stats_time, rkmessage, polls, last_flush,
                            flush_count, stats_flushes, last_msg, pending >>]_vars

\* the third SIGINT arrives while a polled message waits to be handled,
\* after an earlier flush
C12_Witness ==
  /\ pc = "exited"
  /\ shutdown_proxy = 3
  /\ rkmessage # NULL
  /\ last_flush # NoFlush

\* C13 (as stated): every execution that ends has exit status 0 or -1,
\* the hard exit on the third SIGINT included.
C13_ExitZeroOrMinusOne == exit_status \in {<<>>, <<0>>, <<-1>>}

\* C13 (amended): main returns 0 after a SIGINT-initiated shutdown and -1
\* after an init failure or a failed flush of the data KP; the hard exit on
\* the third SIGINT, and only it, ends the process with status 1.
C13_ExitStatus ==
  /\ exit_status \in {<<>>, <<0>>, <<-1>>, <<1>>}
  /\ exit_status = <<1>> <=> pc = "exited"
  /\ pc = "init_failed" => exit_status = <<-1>>
  /\ pc = "done" =>
       /\ exit_status = <<rc>>
       /\ rc \in {0, -1}
       /\ rc = 0 => shutdown_proxy >= 1
       /\ last_msg.status = "flush_failed" => rc = -1
  /\ pc \in {"main", "run", "burst", "cleanup", "hung", "crashed"} => exit_status = <<>>

\* the third SIGINT ends a proxy that was started successfully and has polled
C13_Witness == exit_status = <<1>> /\ polls >= 1 /\ shutdown_proxy = 3

\* the seven keys C14 names as the mandatory ones
SevenKeys ==
  {"timeseries-backend", "timeseries-dbats-opts", "kafka-brokers",
   "kafka-topic-prefix", "kafka-channel", "kafka-consumer-group",
   "kafka-offset"}

\* C14: is_valid_config accepts a configuration exactly when the seven keys
\* are present, and a configuration with the seven keys never fails
\* start-up because log-level, filter-prefix or a stats-* key is absent
\* (it is not rejected as invalid and start-up does not crash).
C14_SevenKeysSuffice ==
  /\ is_valid_config(m_present) = 0 <=> SevenKeys \subseteq m_present
  /\ SevenKeys \subseteq m_present => m_pc \notin {"invalid_config", "crashed"}

(***************************************************************************)
(* Properties of the key package of libtimeseries.c                        *)
(***************************************************************************)
\* C15: a successful timeseries_kp_add_key returns the index of the added
\* key (the number of keys before the call), which is a valid index for
\* timeseries_kp_set and holds that key; it returns -1 only on an error.
C15_AddKeyReturnsIndex ==
  l_ret.op = "add_key" =>
    IF l_ret.failed THEN l_ret.rc = -1
    ELSE /\ l_ret.rc = l_ret.before
         /\ l_ret.rc \in 0..(Len(l_kp.keys) - 1)
         /\ l_kp.keys[l_ret.rc + 1] = l_ret.key

\* C16: no two records of a KP hold the same key string, the number of keys
\* never decreases, and adding a key that is already there returns the
\* index of the existing record without adding one.
C16_KeysUnique ==
  /\ [](\A i, j \in 1..Len(l_kp.keys) : l_kp.keys[i] = l_kp.keys[j] => i = j)
  /\ []((l_ret.op = "add_key" /\ ~l_ret.failed) =>
          \A i \in 1..l_ret.before :
             l_kp.keys[i] = l_ret.key =>
               (Len(l_kp.keys) = l_ret.before /\ l_ret.rc = i - 1))
  /\ [][Len(l_kp'.keys) >= Len(l_kp.keys)]_vars

\* C17: after a timeseries_kp_flush that returned 0 on a KP created with
\* reset # 0 every value is 0, and a key that was just added has value 0.
C17_ResetAfterFlush ==
  /\ Len(l_kp.values) = Len(l_kp.keys)
  /\ (l_ret.op = "flush" /\ l_ret.rc = 0 /\ l_kp.reset # 0) =>
        \A i \in 1..Len(l_kp.values) : l_kp.values[i] = 0
  /\ (l_ret.op = "add_key" /\ ~l_ret.failed) =>
        l_kp.values[Len(l_kp.values)] = 0

\* add_key("k"); set(0, 9); flush(10) on a KP with reset: the backend got
\* k = 9 at time 10 and the value at index 0 is 0 again
C17_Witness ==
  /\ l_kp.reset = 1
  /\ l_kp.keys = <<key_k>>
  /\ l_ret.op = "flush" /\ l_ret.rc = 0 /\ l_ret.time = 10
  /\ l_out = << [key |-> key_k, value |-> 9, time |-> 10] >>
  /\ l_kp.values = <<0>>

ProxyRetryFlushesSame ==
  /\ [][(pc \in {"run", "burst"} /\ pc' = "cleanup" /\ rc' # 0) =>
          /\ kp' = kp
          /\ current_time' = current_time
          /\ last_flush' = last_flush
          /\ current_time # 0
          /\ kp_enabled_size(kp) > 0]_vars
  /\ [][(pc = "cleanup" /\ last_flush' # last_flush) =>
          /\ last_flush'.time = current_time
          /\ last_flush'.kvs = kp_enabled_kvs(kp)]_vars

(***************************************************************************)
(* Properties of the DISABLE-mode key package the proxy uses               *)
(***************************************************************************)
\* C18: right after a successful flush of the data KP (DISABLE mode) no key
\* is enabled, so the assertion in maybe_flush holds at every flush; and on
\* every KP the proxy reaches, set(i, v) leaves index i enabled with value
\* v, whether the flush had disabled it or not.
C18_DisabledAfterFlush ==
  /\ last_flush.enabled_after = 0
  /\ kp_enabled_size(kp_after_flush(kp, KP_DISABLE)) = 0
  /\ \A i \in 1..Len(kp) :
        /\ kp_set(kp, i - 1, 3, KP_DISABLE)[i].enabled
        /\ kp_set(kp, i - 1, 3, KP_DISABLE)[i].value = 3
        /\ kp_enabled_size(kp_set(kp_after_flush(kp, KP_DISABLE), i - 1, 3,
                                  KP_DISABLE)) = 1

\* a key that a flush wrote and disabled was set again by a later message
\* and is enabled, next to a key that is still disabled
C18_Witness ==
  /\ last_flush.kvs # <<>>
  /\ last_flush.enabled_after = 0
  /\ \E i \in 1..Len(kp) : kp[i].enabled /\ kp[i].key = last_flush.kvs[1][1]
  /\ \E i \in 1..Len(kp) : ~kp[i].enabled

(***************************************************************************)
(* Properties of kp_flush on the ASCII and the Kafka backend               *)
(***************************************************************************)
\* the enabled records of the KP, in index order
EnabledRecords(k) ==
  LET En(r) == r.enabled IN SelectSeq(k, En)

\* the text lines "<key> <value> <time>\n" of the records
TextLines(recs, time) ==
  [i \in 1..Len(recs) |-> << recs[i].key, 32, recs[i].value, 32, time, 10 >>]

RECURSIVE Concat(_)
Concat(ss) == IF ss = <<>> THEN <<>> ELSE ss[1] \o Concat(Tail(ss))

AsciiState0 == [bulk_expect |-> 0, bulk_cnt |-> 0, bulk_time |-> 0]

\* timeseries_backend_ascii_set_single: [rc, out]; time_buffer is the
\* decimal rendering of time, kept as the number
ascii_set_single(out, key, value, time) ==
  [rc |-> 0, out |-> Append(out, PRINT_METRIC(key, value, time))]

\* timeseries_backend_ascii_set_single_by_id: the id is the key
ascii_set_single_by_id(out, id, value, time) ==
  ascii_set_single(out, id, value, time)

\* timeseries_backend_ascii_set_bulk_init: [rc, st, abort]
ascii_set_bulk_init(st, key_cnt, time) ==
  IF ~(st.bulk_expect = 0 /\ st.bulk_cnt = 0)
  THEN [rc |-> 0, st |-> st, abort |-> TRUE]
  ELSE [rc |-> 0, st |-> [st EXCEPT !.bulk_expect = key_cnt, !.bulk_time = time],
        abort |-> FALSE]

\* a set_bulk_by_id that leaves the batch open after its last call
ascii_set_bulk_by_id_open(st, out, id, value) ==
  IF ~(st.bulk_expect > 0)
  THEN [rc |-> 0, st |-> st, out |-> out, abort |-> TRUE]
  ELSE [rc |-> 0, st |-> [st EXCEPT !.bulk_cnt = @ + 1],
        out |-> ascii_set_single_by_id(out, id, value, st.bulk_time).out,
        abort |-> FALSE]

\* timeseries_backend_ascii_set_bulk_by_id: [rc, st, out, abort]; the uint32_t
\* ++bulk_cnt cannot wrap, bulk_cnt being below bulk_expect here
ascii_set_bulk_by_id(st, out, id, value) ==
  IF ~(st.bulk_expect > 0)
  THEN [rc |-> 0, st |-> st, out |-> out, abort |-> TRUE]
  ELSE
    LET r == ascii_set_single_by_id(out, id, value, st.bulk_time)
        cnt == st.bulk_cnt + 1
    IN
    IF r.rc # 0 THEN [rc |-> -1, st |-> st, out |-> r.out, abort |-> FALSE]
    ELSE [rc |-> 0,
          st |-> IF cnt = st.bulk_expect THEN AsciiState0
                 ELSE [st EXCEPT !.bulk_cnt = cnt],
          out |-> r.out, abort |-> FALSE]

MaxAsciiCalls == 4

MaxBulk == 3

AsciiKeys == {key_ax, key_by}

AsciiValues == {0, 42}

AsciiTimes == {0, 100}

\* a caller calls set_single
AsciiSetSingle ==
  /\ a_pc = "ready"
  /\ a_calls < MaxAsciiCalls
  /\ \E key \in AsciiKeys, value \in AsciiValues, time \in AsciiTimes :
       LET r == ascii_set_single(a_out, key, value, time) IN
         /\ a_out' = r.out
         /\ a_ret' = << [op |-> "set_single", rc |-> r.rc, id |-> key,
                         value |-> value, pre |-> a_st] >>
  /\ a_calls' = a_calls + 1
  /\ UNCHANGED << little_endian, codec_vars, kafka_vars, proxy_vars, main_vars,
                  lkp_vars, emit_vars, reg_vars, send_vars, batch_vars, a_pc, a_st >>

\* a caller calls set_bulk_init; a failed assertion aborts the process
AsciiSetBulkInit ==
  /\ a_pc = "ready"
  /\ a_calls < MaxAsciiCalls
  /\ \E key_cnt \in 0..MaxBulk, time \in AsciiTimes :
       LET r == ascii_set_bulk_init(a_st, key_cnt, time) IN
         /\ a_st' = r.st
         /\ a_pc' = IF r.abort THEN "aborted" ELSE "ready"
         /\ a_ret' = << [op |-> "set_bulk_init", rc |-> r.rc, id |-> <<>>,
                         value |-> key_cnt, pre |-> a_st] >>
  /\ a_calls' = a_calls + 1
  /\ UNCHANGED << little_endian, codec_vars, kafka_vars, proxy_vars, main_vars,
                  lkp_vars, emit_vars, reg_vars, send_vars, batch_vars, a_out >>

\* a caller calls set_bulk_by_id; a failed assertion aborts the process
AsciiSetBulkById ==
  /\ a_pc = "ready"
  /\ a_calls < MaxAsciiCalls
  /\ \E id \in AsciiKeys, value \in AsciiValues :
       LET r == ascii_set_bulk_by_id(a_st, a_out, id, value) IN
         /\ a_st' = r.st
         /\ a_out' = r.out
         /\ a_pc' = IF r.abort THEN "aborted" ELSE "ready"
         /\ a_ret' = << [op |-> "set_bulk_by_id", rc |-> r.rc, id |-> id,
                         value |-> value, pre |-> a_st] >>
  /\ a_calls' = a_calls + 1
  /\ UNCHANGED << little_endian, codec_vars, kafka_vars, proxy_vars, main_vars,
                  lkp_vars, emit_vars, reg_vars, send_vars, batch_vars >>

AsciiInit ==
  /\ little_endian = TRUE
  /\ CodecIdle /\ KafkaIdle /\ ProxyIdle /\ MainIdle /\ KpIdle /\ EmitIdle
  /\ RegIdle /\ SendIdle /\ BatchIdle
  /\ a_pc = "ready"
  /\ a_st = AsciiState0
  /\ a_out = <<>>
  /\ a_ret = <<>>
  /\ a_calls = 0

AsciiNext == AsciiSetSingle \/ AsciiSetBulkInit \/ AsciiSetBulkById

SpecAscii == AsciiInit /\ [][AsciiNext]_vars

\* the call that has just returned was a set_bulk_by_id inside a batch
BulkByIdReturned ==
  /\ a_ret # <<>>
  /\ a_ret[1].op = "set_bulk_by_id"
  /\ a_ret[1].pre.bulk_expect > 0

\* C21: inside a batch opened by set_bulk_init(n, t) with n > 0, every
\* set_bulk_by_id(id, v) appends exactly the record set_single((char*)id, v, t)
\* appends and trips no assertion; the n-th one puts bulk_cnt, bulk_expect
\* and bulk_time back to 0 and the earlier ones only count; and in every
\* state bulk_cnt < bulk_expect or both are 0
C21_BulkAsSingles ==
  /\ [](a_st.bulk_cnt < a_st.bulk_expect
          \/ (a_st.bulk_cnt = 0 /\ a_st.bulk_expect = 0))
  /\ [][ (a_calls' = a_calls + 1 /\ BulkByIdReturned')
           => /\ a_pc' = "ready"
              /\ a_ret'[1].rc = 0
              /\ a_out' = ascii_set_single(a_out, a_ret'[1].id, a_ret'[1].value,
                                           a_st.bulk_time).out
              /\ a_out' = Append(a_out, << CStr(a_ret'[1].id), 32,
                                           a_ret'[1].value, 32,
                                           a_st.bulk_time, 10 >>)
              /\ IF a_st.bulk_cnt + 1 = a_st.bulk_expect
                 THEN a_st' = AsciiState0
                 ELSE a_st' = [a_st EXCEPT !.bulk_cnt = @ + 1] ]_vars

\* a batch of at least two keys has just been ended by its last call
C21_Witness ==
  /\ BulkByIdReturned
  /\ a_pc = "ready"
  /\ a_ret[1].pre.bulk_expect >= 2
  /\ a_ret[1].pre.bulk_cnt + 1 = a_ret[1].pre.bulk_expect
  /\ a_st = AsciiState0
  /\ Len(a_out) >= 2

(***************************************************************************)
(* libtimeseries: the backend table of a timeseries_t                      *)
(***************************************************************************)
\* timeseries_backend_id_t: ASCII, DBATS, KAFKA
TIMESERIES_BACKEND_ID_FIRST == 1

TIMESERIES_BACKEND_ID_LAST == 3

TIMESERIES_BACKEND_MAX == 3

\* BACKEND_NAME of each backend: "ascii", "dbats", "kafka"
BackendNames ==
  << <<97, 115, 99, 105, 105>>, <<100, 98, 97, 116, 115>>,
     <<107, 97, 102, 107, 97>> >>

\* a slot of timeseries->backends that holds no backend
NullBackend == [null |-> TRUE, id |-> 0, name |-> <<>>, enabled |-> 0]

\* timeseries_get_backend_by_id; slots is timeseries->backends
timeseries_get_backend_by_id(slots, id) == slots[id]

\* timeseries_is_backend_enabled
timeseries_backend_is_enabled(backend) == backend.enabled

\* a loop over the backend table that does not look at the enabled flag
RECURSIVE foreach_backend(_, _)
foreach_backend(slots, id) ==
  IF ~(id <= TIMESERIES_BACKEND_ID_LAST) THEN <<>>
  ELSE IF timeseries_get_backend_by_id(slots, id).null
  THEN foreach_backend(slots, id + 1)
  ELSE << timeseries_get_backend_by_id(slots, id) >>
         \o foreach_backend(slots, id + 1)

\* TIMESERIES_FOREACH_ENABLED_BACKEND from id on: the backends the loop
\* body is run for, in the order it is run
RECURSIVE foreach_enabled_backend(_, _)
foreach_enabled_backend(slots, id) ==
  IF ~(id <= TIMESERIES_BACKEND_ID_LAST) THEN <<>>
  ELSE
    LET backend == timeseries_get_backend_by_id(slots, id) IN
    IF backend.null \/ timeseries_backend_is_enabled(backend) = 0
    THEN foreach_enabled_backend(slots, id + 1)
    ELSE << backend >> \o foreach_enabled_backend(slots, id + 1)

\* tolower in the C locale
tolower(c) == IF c \in 65..90 THEN c + 32 ELSE c

\* the i-th char of the C string s, the terminating NUL included
CharAt(s, i) == IF i <= Len(CStr(s)) THEN CStr(s)[i] ELSE 0

\* strncasecmp(a, b, n) == 0
RECURSIVE strncasecmp_eq_from(_, _, _, _)
strncasecmp_eq_from(a, b, n, i) ==
  IF i > n THEN TRUE
  ELSE IF tolower(CharAt(a, i)) # tolower(CharAt(b, i)) THEN FALSE
  ELSE IF CharAt(a, i) = 0 THEN TRUE
  ELSE strncasecmp_eq_from(a, b, n, i + 1)

strncasecmp_eq(a, b, n) == strncasecmp_eq_from(a, b, n, 1)

\* the loop of timeseries_get_backend_by_name from slot i on
RECURSIVE get_backend_by_name_from(_, _, _)
get_backend_by_name_from(slots, name, i) ==
  IF ~(i <= TIMESERIES_BACKEND_MAX) THEN NullBackend
  ELSE
    LET backend == timeseries_get_backend_by_id(slots, i) IN
    IF ~backend.null /\ strncasecmp_eq(backend.name, name, Len(CStr(backend.name)))
    THEN backend
    ELSE get_backend_by_name_from(slots, name, i + 1)

\* timeseries_get_backend_by_name
timeseries_get_backend_by_name(slots, name) ==
  get_backend_by_name_from(slots, name, 1)

\* the names callers ask for: "ascii", "ASCII", "Kafka", "dbats", "asc",
\* "asciifoo", "kafka2", "", "csv"
RequestedNames ==
  { <<97, 115, 99, 105, 105>>, <<65, 83, 67, 73, 73>>,
    <<75, 97, 102, 107, 97>>, <<100, 98, 97, 116, 115>>, <<97, 115, 99>>,
    <<97, 115, 99, 105, 105, 102, 111, 111>>, <<107, 97, 102, 107, 97, 50>>,
    <<>>, <<99, 115, 118>> }

\* the tables timeseries_init and timeseries_enable_backend can leave: each
\* slot empty, or holding the backend of its id, enabled or not
BackendTables ==
  { slots \in [1..TIMESERIES_BACKEND_MAX ->
                 [null : BOOLEAN, id : 0..TIMESERIES_BACKEND_MAX,
                  name : {<<>>} \cup {BackendNames[i] : i \in 1..3},
                  enabled : {0, 1}]] :
      \A i \in 1..TIMESERIES_BACKEND_MAX :
        \/ slots[i] = NullBackend
        \/ (~slots[i].null /\ slots[i].id = i /\ slots[i].name = BackendNames[i]) }

NoLookup == [op |-> "none", visited |-> <<>>, backend |-> NullBackend]

\* a library loop runs TIMESERIES_FOREACH_ENABLED_BACKEND
RegForeach ==
  /\ b_pc = "ready"
  /\ b_ret' = [op |-> "foreach",
               visited |-> foreach_enabled_backend(b_slots,
                                                   TIMESERIES_BACKEND_ID_FIRST),
               backend |-> NullBackend]
  /\ b_name' = <<>>
  /\ UNCHANGED << little_endian, codec_vars, kafka_vars, proxy_vars, main_vars,
                  lkp_vars, emit_vars, ascii_vars, send_vars, batch_vars, b_pc, b_slots >>

\* a caller calls timeseries_get_backend_by_name
RegGetByName ==
  /\ b_pc = "ready"
  /\ \E name \in RequestedNames :
       /\ b_name' = name
       /\ b_ret' = [op |-> "by_name", visited |-> <<>>,
                    backend |-> timeseries_get_backend_by_name(b_slots, name)]
  /\ UNCHANGED << little_endian, codec_vars, kafka_vars, proxy_vars, main_vars,
                  lkp_vars, emit_vars, ascii_vars, send_vars, batch_vars, b_pc, b_slots >>

RegInit ==
  /\ little_endian = TRUE
  /\ CodecIdle /\ KafkaIdle /\ ProxyIdle /\ MainIdle /\ KpIdle /\ EmitIdle
  /\ AsciiIdle /\ SendIdle /\ BatchIdle
  /\ b_pc = "ready"
  /\ b_slots \in BackendTables
  /\ b_name = <<>>
  /\ b_ret = NoLookup

RegNext == RegForeach \/ RegGetByName

SpecReg == RegInit /\ [][RegNext]_vars

\* the identifiers of the backends that are present and enabled
EnabledIds ==
  { id \in TIMESERIES_BACKEND_ID_FIRST..TIMESERIES_BACKEND_ID_LAST :
      ~b_slots[id].null /\ b_slots[id].enabled # 0 }

\* C22: TIMESERIES_FOREACH_ENABLED_BACKEND runs its body for exactly the
\* backends whose slot is not null and whose enabled flag is set, once each,
\* in ascending identifier order
C22_VisitsEnabledAscending ==
  b_ret.op = "foreach" =>
    /\ \A i \in 1..Len(b_ret.visited) :
         /\ b_ret.visited[i] = b_slots[b_ret.visited[i].id]
         /\ b_ret.visited[i].id \in EnabledIds
    /\ \A id \in EnabledIds : \E i \in 1..Len(b_ret.visited) : b_ret.visited[i].id = id
    /\ \A i, j \in 1..Len(b_ret.visited) :
         i < j => b_ret.visited[i].id < b_ret.visited[j].id

\* the loop has run over a table with an empty slot before a disabled
\* backend before an enabled one
C22_Witness ==
  /\ b_ret.op = "foreach"
  /\ b_slots[1].null
  /\ ~b_slots[2].null /\ b_slots[2].enabled = 0
  /\ ~b_slots[3].null /\ b_slots[3].enabled = 1
  /\ Len(b_ret.visited) = 1

\* lower-case image of a C string
LowerStr(s) == [i \in 1..Len(CStr(s)) |-> tolower(CStr(s)[i])]

\* C23: timeseries_get_backend_by_name returns a backend exactly when the
\* requested name equals that backend's name up to case, and NULL for every
\* other name
C23_ExactNameMatch ==
  b_ret.op = "by_name" =>
    /\ ~b_ret.backend.null => LowerStr(b_ret.backend.name) = LowerStr(b_name)
    /\ b_ret.backend.null =>
         \A i \in 1..TIMESERIES_BACKEND_MAX :
           ~b_slots[i].null => LowerStr(b_slots[i].name) # LowerStr(b_name)

(***************************************************************************)
(* Kafka backend: SEND_MSG, one rd_kafka_produce attempt at a time         *)
(***************************************************************************)
\* RD_KAFKA_RESP_ERR__QUEUE_FULL and any other error of rd_kafka_produce
ProduceOutcomes == {"ok", "QUEUE_FULL", "OTHER"}

\* the arguments of the rd_kafka_produce call of SEND_MSG
produce_args(le, buffer, time) ==
  [partition |-> DEFAULT_PARTITION, payload |-> buffer, len |-> Len(buffer),
   key |-> HostImage(le, time, 4), keylen |-> 4]

\* a SEND_MSG that gives up on a full queue as on any other error
send_msg_attempt_drop(buffer, outcome) ==
  IF outcome = "ok" THEN [pc |-> "sent", buffer |-> <<>>, rc |-> 0]
  ELSE [pc |-> "err", buffer |-> <<>>, rc |-> -1]

\* one pass of the while loop of SEND_MSG with written > 0: where control
\* goes after rd_kafka_produce ended with outcome, and what is left in the
\* buffer ("sent": loop left, RESET_BUF; "poll": in rd_kafka_poll(1000),
\* then the loop again; "err": RESET_BUF and goto err)
send_msg_attempt(buffer, outcome) ==
  IF outcome = "QUEUE_FULL" THEN [pc |-> "poll", buffer |-> buffer, rc |-> 0]
  ELSE IF outcome = "ok" THEN [pc |-> "sent", buffer |-> <<>>, rc |-> 0]
  ELSE [pc |-> "err", buffer |-> <<>>, rc |-> -1]

MaxTries == 3

\* buffers SEND_MSG is entered with: empty, an ascii line, a TSK message
SendBuffers ==
  { <<>>, write_ascii(key_foo, 42, 60),
    write_header(TRUE, 60, ch1, Len(ch1)) \o write_kv(TRUE, key_ax, 1) }

\* SEND_MSG is entered: the loop test
SendEnter ==
  /\ s_pc = "enter"
  /\ s_pc' = IF Len(s_buf.buffer) > 0 THEN "produce" ELSE "sent"
  /\ UNCHANGED << little_endian, codec_vars, kafka_vars, proxy_vars, main_vars,
                  lkp_vars, emit_vars, ascii_vars, reg_vars, batch_vars, s_buf, s_full,
                  s_sent, s_tries >>

\* rd_kafka_produce is called and returns; a full queue refuses the message
SendProduce ==
  /\ s_pc = "produce"
  /\ \E outcome \in IF s_full THEN {"QUEUE_FULL"} ELSE {"ok", "OTHER"} :
       LET a == produce_args(little_endian, s_buf.buffer, s_buf.time)
           r == send_msg_attempt(s_buf.buffer, outcome)
       IN /\ s_pc' = r.pc
          /\ s_buf' = [s_buf EXCEPT !.buffer = r.buffer, !.rc = r.rc]
          /\ s_sent' = IF outcome = "ok" THEN Append(s_sent, a) ELSE s_sent
          /\ s_tries' = IF Len(s_tries) < MaxTries
                        THEN Append(s_tries, [args |-> a, outcome |-> outcome])
                        ELSE [s_tries EXCEPT ![MaxTries] =
                                [args |-> a, outcome |-> outcome]]
  /\ UNCHANGED << little_endian, codec_vars, kafka_vars, proxy_vars, main_vars,
                  lkp_vars, emit_vars, ascii_vars, reg_vars, batch_vars, s_full >>

\* rd_kafka_poll(rdk_conn, 1000) returns; deliveries may have made room
SendPoll ==
  /\ s_pc = "poll"
  /\ s_pc' = "produce"
  /\ s_full' \in {s_full, FALSE}
  /\ UNCHANGED << little_endian, codec_vars, kafka_vars, proxy_vars, main_vars,
                  lkp_vars, emit_vars, ascii_vars, reg_vars, batch_vars, s_buf, s_sent,
                  s_tries >>

\* other producers fill the queue before the call is made
SendQueueFills ==
  /\ s_pc = "produce"
  /\ ~s_full
  /\ s_full' = TRUE
  /\ UNCHANGED << little_endian, codec_vars, kafka_vars, proxy_vars, main_vars,
                  lkp_vars, emit_vars, ascii_vars, reg_vars, batch_vars, s_pc, s_buf, s_sent,
                  s_tries >>

SendInit ==
  /\ little_endian \in BOOLEAN
  /\ CodecIdle /\ KafkaIdle /\ ProxyIdle /\ MainIdle /\ KpIdle /\ EmitIdle
  /\ AsciiIdle /\ RegIdle /\ BatchIdle
  /\ s_pc = "enter"
  /\ \E buffer \in SendBuffers, time \in {60, 121} :
       s_buf = [buffer |-> buffer, time |-> time, entry |-> buffer, rc |-> 0]
  /\ s_full \in BOOLEAN
  /\ s_sent = <<>>
  /\ s_tries = <<>>

SendNext == SendEnter \/ SendProduce \/ SendPoll \/ SendQueueFills

SpecSend == SendInit /\ [][SendNext]_vars

\* the calling thread runs on: a call of rd_kafka_produce returns, and so does
\* rd_kafka_poll after its timeout
SpecSendFair ==
  /\ SpecSend
  /\ WF_vars(SendEnter) /\ WF_vars(SendProduce) /\ WF_vars(SendPoll)

\* the message SEND_MSG was entered with has not been accepted yet
Unsent == s_sent = <<>> /\ Len(s_buf.entry) > 0

\* C24: after a QUEUE_FULL the backend sits in poll(1000) with the buffer
\* untouched and then hands rd_kafka_produce the same payload, length and key
\* again; while the message is unsent the buffer is only ever dropped by an
\* error other than QUEUE_FULL; an accepted message is the one SEND_MSG was
\* entered with, produced once; and if the queue eventually has room for good
\* (and produce reports no other error) the message is eventually produced
C24_QueueFullRetriesSame ==
  /\ [](\A i \in 1..Len(s_tries) :
          /\ s_tries[i].args = produce_args(little_endian, s_buf.entry, s_buf.time)
          /\ (i < Len(s_tries) /\ i < MaxTries - 1)
               => s_tries[i].outcome = "QUEUE_FULL")
  /\ []((Unsent /\ s_pc \in {"produce", "poll"}) => s_buf.buffer = s_buf.entry)
  /\ []((Unsent /\ s_buf.buffer # s_buf.entry)
          => (s_pc = "err" /\ s_tries[Len(s_tries)].outcome = "OTHER"))
  /\ [](s_pc = "sent" =>
          /\ s_buf.buffer = <<>>
          /\ Len(s_buf.entry) > 0
               => s_sent = << produce_args(little_endian, s_buf.entry, s_buf.time) >>)
  /\ [][ (s_pc = "produce" /\ s_full)
           => (s_pc' = "poll" /\ s_buf' = s_buf /\ s_sent' = s_sent) ]_vars
  /\ ((<>[](~s_full) /\ [](s_pc # "err")) => <>(s_pc = "sent"))

\* a message has been accepted after two QUEUE_FULL refusals
C24_Witness ==
  /\ s_pc = "sent"
  /\ Len(s_tries) = 3
  /\ s_tries[1].outcome = "QUEUE_FULL"
  /\ s_tries[2].outcome = "QUEUE_FULL"
  /\ s_tries[3].outcome = "ok"
  /\ Len(s_sent) = 1

\* the sleeps kafka_connect makes when every attempt fails to connect
ExpectedWaits == <<10, 20, 40, 80, 160, 180, 180>>

\* C25: kafka_connect calls producer_connect at most CONNECT_MAX_RETRIES (8)
\* times; it sleeps after every attempt but the last one it makes, for 10,
\* 20, 40, 80, 160, 180, 180 seconds in turn; it returns 0 only with
\* connected = 1 and the topic handle created, and -1 when the attempts are
\* used up without a connection or an attempt reports a fatal error
C25_ConnectBackoff ==
  \A i \in 1..Len(k_ghost.connect) :
    LET c == k_ghost.connect[i] IN
      /\ c.attempts \in 1..CONNECT_MAX_RETRIES
      /\ c.waits = SubSeq(ExpectedWaits, 1, c.attempts - 1)
      /\ c.rc \in {0, -1}
      /\ c.rc = 0 => (c.st.connected = 1 /\ c.st.rkt /\ c.st.fatal_error = 0)
      /\ c.st.connected = 0 => c.rc = -1
      /\ c.st.fatal_error # 0 => c.rc = -1

\* the eighth attempt connected, after all seven waits
C25_Witness ==
  /\ k_ghost.connect # <<>>
  /\ k_ghost.connect[1].attempts = CONNECT_MAX_RETRIES
  /\ k_ghost.connect[1].waits = ExpectedWaits
  /\ k_ghost.connect[1].rc = 0
  /\ k_pc = "ready"

\* C28: timeseries_backend_kafka_free ends after at most 12 polls of 5 s,
\* none of them made with an empty out-queue, so it stops polling once the
\* queue is empty; it then destroys the topic and producer handles that exist
\* and releases the state, also with messages still queued; on a backend
\* with no state it does nothing
C28_FreeTerminates ==
  /\ \A i \in 1..Len(k_ghost.free) :
       LET f == k_ghost.free[i] IN
         /\ f.polls \in 0..12
         /\ f.waited = f.polls * 5000
         /\ f.idle = 0
         /\ (f.left > 0 => f.polls = 12)
         /\ f.st = NoState
         /\ IF f.had = NoState
            THEN f.noop /\ f.polls = 0 /\ ~f.rkt_destroyed /\ ~f.conn_destroyed
            ELSE /\ ~f.noop
                 /\ f.rkt_destroyed = f.had.rkt
                 /\ f.conn_destroyed = f.had.rdk_conn
  /\ k_pc = "freed" => (k_ghost.free # <<>> /\ kstate = NoState)

\* free gave up waiting after twelve polls and destroyed the handles with a
\* message still queued
C28_Witness ==
  /\ k_ghost.free # <<>>
  /\ k_ghost.free[1].left > 0
  /\ k_ghost.free[1].polls = 12
  /\ k_ghost.free[1].rkt_destroyed
  /\ k_ghost.free[1].conn_destroyed
  /\ kstate = NoState

\* C26: a recoverable bus error clears connected and leaves the fatal flag
\* alone, and a kp_flush or set_single that hands a message to produce has
\* gone through the connect state machine first: it ends with connected = 1
C26_ReconnectBeforeFlush ==
  /\ \A err \in {"DESTROY", "FAIL", "TRANSPORT", "ALL_BROKERS_DOWN"} :
       LET st == [NewState(FORMAT_TSK, ch1) EXCEPT !.connected = 1] IN
         kafka_error_callback(st, err) = [st EXCEPT !.connected = 0]
  /\ [][ produced' # produced => kstate'.connected = 1 ]_vars

\* C27: once a fatal code has set fatal_error it stays set as long as the
\* state lives, and no kp_flush or set_single made after it hands a message
\* to produce
C27_FatalFailsFast ==
  [][ (kstate # NoState /\ kstate.fatal_error = 1)
        => /\ produced' = produced
           /\ (kstate' = NoState \/ kstate'.fatal_error = 1) ]_vars

(***************************************************************************)
(* Kafka backend: one TSK kp_flush over keys of any size                   *)
(***************************************************************************)
MaxBatchKeys == 9

\* the shapes of key package flushed: short keys, keys of the greatest
\* length write_kv accepts, eight of those followed by short ones, and
\* short keys with one of UINT16_MAX bytes among them
BatchShapes == {"short", "long", "tail", "toolong"}

KeyLen(shape, i) ==
  CASE shape = "short" -> 3
    [] shape = "long" -> UINT16_MAX - 1
    [] shape = "tail" -> IF i <= 8 THEN UINT16_MAX - 1 ELSE 3
    [] shape = "toolong" -> IF i = 3 THEN UINT16_MAX ELSE 3

\* key packages by description: key i is len times the letter ch
BatchKPs ==
  { [i \in 1..n |-> [ch |-> 96 + i, len |-> KeyLen(shape, i), value |-> i,
                     enabled |-> i # dis]]
    : n \in 0..MaxBatchKeys, shape \in BatchShapes, dis \in {0, 2} }

\* the key a description stands for
KeyOf(d) == SubSeq([i \in 1..d.len |-> d.ch], 1, d.len)

\* the key package a description stands for
KPOf(t) ==
  [i \in 1..Len(t) |->
     [key |-> KeyOf(t[i]), value |-> t[i].value, enabled |-> t[i].enabled]]

\* length of the TSK header of a message on channel
HdrLen(channel) == HEADER_MAGIC_LEN + 1 + 4 + 2 + Len(channel)

BadTuple == [ch |-> -1, len |-> -1, value |-> -1]

\* the tuples read off payload from byte pos on, by the documented layout
\* (key length and value in network byte order), each by description
RECURSIVE TupleWalk(_, _)
TupleWalk(p, pos) ==
  IF pos > Len(p) THEN <<>>
  ELSE IF pos + 1 > Len(p) THEN << BadTuple >>
  ELSE
    LET klen == p[pos] * 256 + p[pos + 1]
        kend == pos + 1 + klen
    IN
    IF klen = 0 \/ kend + 8 > Len(p) THEN << BadTuple >>
    ELSE IF \E j \in (pos + 2)..kend : p[j] # p[pos + 2] THEN << BadTuple >>
    ELSE << [ch |-> p[pos + 2], len |-> klen,
             value |-> BENum(SubSeq(p, kend + 1, kend + 8))] >>
           \o TupleWalk(p, kend + 9)

\* what a produced message is, by description
Digest(m, channel) ==
  [len |-> Len(m.payload), time |-> m.time,
   hdr |-> SubSeq(m.payload, 1, Min(HdrLen(channel), Len(m.payload))),
   tuples |-> TupleWalk(m.payload, HdrLen(channel) + 1)]

\* timeseries_backend_kafka_kp_flush on a connected TSK backend
BatchFlush ==
  /\ t_pc = "flush"
  /\ LET st == [NewState(FORMAT_TSK, ch1) EXCEPT !.connected = 1,
                                                 !.rdk_conn = TRUE, !.rkt = TRUE]
     IN \E d \in { LET r == kafka_kp_flush(st, little_endian, KPOf(t_kp.keys),
                                           t_kp.time, 7, produce_ok)
                   IN [rc |-> r.rc, abort |-> r.abort, peak |-> r.peak,
                       left |-> buffer_written(r.st),
                       msgs |-> [i \in 1..Len(r.out) |-> Digest(r.out[i], ch1)]]
                   : produce_ok \in BOOLEAN } :
          /\ t_res' = << d >>
          /\ t_pc' = IF d.abort # "no" THEN "aborted" ELSE "done"
  /\ UNCHANGED << little_endian, codec_vars, kafka_vars, proxy_vars, main_vars,
                  lkp_vars, emit_vars, ascii_vars, reg_vars, send_vars, t_kp >>

BatchInit ==
  /\ little_endian \in BOOLEAN
  /\ CodecIdle /\ KafkaIdle /\ ProxyIdle /\ MainIdle /\ KpIdle /\ EmitIdle
  /\ AsciiIdle /\ RegIdle /\ SendIdle
  /\ t_pc = "flush"
  /\ \E keys \in BatchKPs : t_kp = [time |-> 60, keys |-> keys]
  /\ t_res = <<>>

BatchNext == BatchFlush

SpecBatch == BatchInit /\ [][BatchNext]_vars

\* the enabled keys of the package, by description
EnabledTuples ==
  LET En(d) == d.enabled
      recs == SelectSeq(t_kp.keys, En)
  IN [i \in 1..Len(recs) |->
        [ch |-> recs[i].ch, len |-> recs[i].len, value |-> recs[i].value]]

\* the tuples of all the messages produced, in order
RECURSIVE ProducedTuples(_)
ProducedTuples(msgs) ==
  IF msgs = <<>> THEN <<>> ELSE msgs[1].tuples \o ProducedTuples(Tail(msgs))

\* C29: when a Kafka kp_flush returns 0 the scratch buffer is empty and the
\* tuples handed to produce, over all its messages, are exactly those of
\* the enabled keys (each once, in index order, with its value), whatever
\* the number and the sizes of the keys; no message is empty
C29_TrailingFlush ==
  (t_res # <<>> /\ t_res[1].abort = "no" /\ t_res[1].rc = 0) =>
    /\ t_res[1].left = 0
    /\ ProducedTuples(t_res[1].msgs) = EnabledTuples
    /\ \A i \in 1..Len(t_res[1].msgs) : Len(t_res[1].msgs[i].tuples) >= 1
    /\ EnabledTuples # <<>> => Len(t_res[1].msgs) >= 1

\* a first message was sent when the buffer passed its half, and the one
\* short key left went out in a message of its own
C29_Witness ==
  /\ t_res # <<>>
  /\ t_res[1].rc = 0
  /\ Len(t_res[1].msgs) = 2
  /\ t_res[1].msgs[2].len < 64
  /\ Len(t_res[1].msgs[2].tuples) = 1
  /\ t_res[1].left = 0

\* bytes of the tuple of a key of len bytes
TupleSize(len) == 2 + len + 8

RECURSIVE SumSizes(_)
SumSizes(tuples) ==
  IF tuples = <<>> THEN 0 ELSE TupleSize(tuples[1].len) + SumSizes(Tail(tuples))

\* C30: in a TSK kp_flush every message produced is one header followed by
\* at least one whole tuple; a message is produced as soon as a tuple takes
\* buffer_written over half of BUFFER_LEN (so it was not over before its
\* last tuple, and every message but the last is over); buffer_written never
\* exceeds BUFFER_LEN and no capacity assertion fails, for keys of up to
\* 2^16 - 1 bytes; the only assertion that can stop the flush is write_kv's
\* key_len < UINT16_MAX, on a key of exactly UINT16_MAX bytes
C30_HalfBufferBatching ==
  t_res # <<>> =>
    LET r == t_res[1] IN
      /\ r.peak <= BUFFER_LEN
      /\ r.abort \in {"no", "key_len"}
      /\ r.abort = "key_len"
           => \E i \in 1..Len(t_kp.keys) :
                t_kp.keys[i].enabled /\ t_kp.keys[i].len = UINT16_MAX
      /\ \A i \in 1..Len(r.msgs) :
           LET m == r.msgs[i] IN
             /\ m.hdr = WireLayout(t_kp.time, ch1, <<>>)
             /\ Len(m.tuples) >= 1
             /\ \A j \in 1..Len(m.tuples) : m.tuples[j] # BadTuple
             /\ m.len = HdrLen(ch1) + SumSizes(m.tuples)
             /\ m.len - TupleSize(m.tuples[Len(m.tuples)].len) <= BUFFER_LEN \div 2
             /\ i < Len(r.msgs) => m.len > BUFFER_LEN \div 2

\* nine keys of 65534 bytes went out as a message of eight tuples, sent
\* when the buffer passed its half, and a message of one
C30_Witness ==
  /\ t_res # <<>>
  /\ t_res[1].abort = "no"
  /\ t_res[1].peak > BUFFER_LEN \div 2
  /\ Len(t_res[1].msgs) = 2
  /\ Len(t_res[1].msgs[1].tuples) = 8
  /\ t_res[1].msgs[2].len > UINT16_MAX

(***************************************************************************)
(* Properties of the proxy's statistics interval                           *)
(***************************************************************************)
\* parse_config_file, lines 693-694, on the static of line 161: the value of
\* stats_interval when main calls init_stats_timeseries
parsed_stats_interval(present) ==
  IF "stats-interval" \in present THEN StatsInterval ELSE 0

\* main has evaluated STATS_INTERVAL_NOW in init_stats_timeseries (line 532)
StatsTimeComputed == m_pc \in {"run", "crashed"}

\* C40: stats_interval is strictly positive whenever the interval-aligned
\* time (time / stats_interval) * stats_interval is computed, for every
\* configuration that passes is_valid_config, one without the optional
\* stats-interval key included.
C40_IntervalPositive ==
  (is_valid_config(m_present) = 0 /\ StatsTimeComputed)
    => parsed_stats_interval(m_present) > 0

(***************************************************************************)
(* Properties of the proxy's key buffer                                    *)
(***************************************************************************)
\* C39: for every tuple parse_key_value copies, the key length read from the
\* wire plus the terminating NUL fits the key buffer (keylen + 1 <=
\* KEY_BUF_LEN), for every message the encoder can produce: no copy writes
\* past the buffer, whether or not the write is noticed.
C39_KeyFitsBuffer ==
  c_pc = "decoded" =>
    /\ c_dec.status # "ub"
    /\ \A i \in 1..Len(c_dec.kvs) : Len(c_dec.kvs[i][1]) + 1 <= KEY_BUF_LEN

(***************************************************************************)
(* Properties of the proxy on malformed tuples                             *)
(***************************************************************************)
\* the last message passed the header checks and its tuple section was
\* malformed: a key length larger than the bytes remaining ("parse_error"),
\* or a field cut short, on which the tuple loop stops making progress
MalformedTuples == last_msg.status \in {"parse_error", "hang"}

\* C35: a message whose tuple section is malformed is skipped as a whole:
\* none of its tuples is added to, enabled in or set in the data KP, it
\* triggers no flush of the previous timestamp, and it is not counted in
\* messages_cnt / messages_bytes.
C35_MalformedSkippedWhole ==
  MalformedTuples =>
    /\ last_msg.written = <<>>
    /\ ~last_msg.kp_changed
    /\ ~last_msg.flushed
    /\ ~last_msg.stats_changed

(***************************************************************************)
(* Properties of the proxy's timestamp attribution                         *)
(***************************************************************************)
\* C34: every (key, value) pair flushed downstream at timestamp T was carried
\* by an accepted message whose header timestamp is T, and when run returns
\* success no accepted value is left unflushed; for every message sequence,
\* messages with timestamp 0 included.
C34_TimestampAttribution ==
  /\ last_flush # NoFlush =>
       \A i \in 1..Len(last_flush.kvs) :
          /\ last_flush.kvs[i][1] \in DOMAIN last_flush.expect
          /\ last_flush.expect[last_flush.kvs[i][1]]
               = << last_flush.kvs[i][2], last_flush.time >>
  /\ exit_status = <<0>> => pending = <<>>

(***************************************************************************)
(* The proxy's run loop on a long burst and over several stats intervals   *)
(***************************************************************************)
LoopInit ==
  /\ little_endian = TRUE
  /\ CodecIdle
  /\ KafkaIdle
  /\ MainIdle /\ KpIdle /\ EmitIdle /\ MoreIdle
  /\ ProxyState0
  /\ cfg.filters_cnt = 0
  /\ bus \in {BurstBus, StatsBus}

SpecLoop == LoopInit /\ [][ProxyNext]_vars

(***************************************************************************)
(* Properties of the burst loop                                            *)
(***************************************************************************)
\* a step of the burst loop on the event just polled
BurstStep ==
  /\ pc = "burst"
  /\ shutdown_proxy' = shutdown_proxy
  /\ now' = now

HandlesEOF == BurstStep /\ rkmessage.err = "PARTITION_EOF"

HandlesOtherError == BurstStep /\ rkmessage.err = "OTHER"

\* handle_message returned 0 and run went on
HandledData == HandlesMessage /\ pc' \in {"run", "burst"}

\* the poll that starts a burst
StartsBurst == pc = "run" /\ pc' = "burst"

\* what holds of the counter whatever the shutdown flag is
CounterBasics ==
  /\ [](eof_since_data <= 10)
  /\ [][HandledData => eof_since_data' = 0]_vars
  /\ [][StartsBurst => eof_since_data' = 0]_vars
  /\ [][HandlesOtherError => eof_since_data' = eof_since_data]_vars

\* C37 (as stated): the EOF-since-data counter is reset to 0 by every
\* successfully handled data message and at the start of every burst, is
\* incremented by every partition-EOF event and left unchanged by other bus
\* errors; the burst ends, with a force-flush following, exactly when the
\* counter reaches 10, the poll returns no message or the shutdown flag is
\* set; the counter never exceeds 10.
C37_BurstCounter ==
  /\ CounterBasics
  /\ [][HandlesEOF => eof_since_data' = eof_since_data + 1]_vars
  /\ [][BurstStep =>
          (pc' = "run" <=> (eof_since_data' = 10 \/ rkmessage' = NULL
                              \/ shutdown_proxy # 0))]_vars
  /\ [][BurstStep => pc' \in {"run", "burst"}]_vars

\* C37 (amended): as stated, except that a partition EOF handled while the
\* shutdown flag is set ends the burst without being counted, and that the
\* burst also ends, straight into the final force-flush of cleanup, when
\* handle_message fails.
C37_BurstCounterUnlessShutdown ==
  /\ CounterBasics
  /\ [][HandlesEOF =>
          eof_since_data' = IF shutdown_proxy # 0 THEN eof_since_data
                            ELSE eof_since_data + 1]_vars
  /\ [][BurstStep =>
          /\ pc' \in {"run", "burst", "cleanup"}
          /\ pc' = "cleanup" <=> (rkmessage.err = "NONE" /\ last_msg'.rc # 0)
          /\ pc' = "run" <=>
               /\ ~(rkmessage.err = "NONE" /\ last_msg'.rc # 0)
               /\ (eof_since_data' = 10 \/ rkmessage' = NULL
                     \/ shutdown_proxy # 0)]_vars

\* ten partition EOFs in a row ended a burst of a proxy that is not shutting
\* down, and the next pass of the outer loop starts with the force-flush
C37_Witness ==
  /\ eof_since_data = 10
  /\ pc = "run"
  /\ shutdown_proxy = 0
  /\ polls >= 10

(***************************************************************************)
(* Properties of the statistics                                            *)
(***************************************************************************)
\* the interval-aligned wall-clock time has reached stats_time + stats-interval
StatsDue == STATS_INTERVAL_NOW(now, stats_interval) >= stats_time + stats_interval

\* a step in which the stats KP was flushed successfully
StatsFlushed == stats_flushes' # stats_flushes

\* C31: the stats KP is flushed only when the interval-aligned wall-clock
\* time is at least stats_time + stats-interval; every stats flush carries a
\* timestamp that is a multiple of stats-interval, the start of an interval
\* that has elapsed; the timestamps of successive successful stats flushes
\* strictly increase; stats_time advances to the aligned current time only
\* after a successful flush and is unchanged after a failed one.
C31_StatsTiming ==
  /\ [](/\ stats_time % stats_interval = 0
        /\ \A i \in 1..Len(stats_flushes) :
              /\ stats_flushes[i] % stats_interval = 0
              /\ stats_flushes[i] + stats_interval <= stats_time
              /\ \A j \in 1..Len(stats_flushes) :
                    i < j => stats_flushes[i] < stats_flushes[j])
  /\ [][StatsFlushed =>
          /\ StatsDue
          /\ stats_flushes' = Append(stats_flushes, stats_time)
          /\ stats_time' = STATS_INTERVAL_NOW(now, stats_interval)]_vars
  /\ [][~StatsFlushed => stats_time' = stats_time]_vars
  /\ [][tally'.last = "failed" =>
          (StatsDue /\ ~StatsFlushed /\ stats_time' = stats_time)]_vars

\* two stats intervals have elapsed and each was flushed at its start
C31_Witness ==
  /\ Len(stats_flushes) >= 2
  /\ stats_flushes[2] = stats_flushes[1] + stats_interval
  /\ stats_time = stats_flushes[2] + stats_interval

\* the value of a statistic in the stats KP (0 while its key does not exist)
StatOf(skp, name) ==
  IF kp_get_key(skp, name) = -1 THEN 0 ELSE kp_get(skp, kp_get_key(skp, name))

\* C36: while the run loop is running (so between two successful stats
\* flushes), messages_cnt equals the number of messages that passed length,
\* version and channel validation since the last successful stats flush and
\* messages_bytes the sum of their lengths, flush_cnt equals the number of
\* successful data-KP flushes and flushed_key_cnt the number of keys they
\* wrote; all four are 0 after a successful stats flush.
C36_StatsCounters ==
  /\ [](pc \in {"run", "burst"} =>
          /\ StatOf(stats_kp, "messages_cnt") = tally.msgs
          /\ StatOf(stats_kp, "messages_bytes") = tally.bytes
          /\ StatOf(stats_kp, "flush_cnt") = tally.flushes
          /\ StatOf(stats_kp, "flushed_key_cnt") = tally.keys)
  /\ [][StatsFlushed =>
          /\ StatOf(stats_kp', "messages_cnt") = 0
          /\ StatOf(stats_kp', "messages_bytes") = 0
          /\ StatOf(stats_kp', "flush_cnt") = 0
          /\ StatOf(stats_kp', "flushed_key_cnt") = 0]_vars

\* after a stats flush, two accepted messages of different lengths were
\* received and one data flush of two keys was made
C36_Witness ==
  /\ pc \in {"run", "burst"}
  /\ Len(stats_flushes) >= 1
  /\ tally.msgs = 2
  /\ tally.bytes = 31 + 44
  /\ tally.flushes = 1
  /\ tally.keys = 2
  /\ StatOf(stats_kp, "messages_bytes") = 31 + 44
  /\ StatOf(stats_kp, "flushed_key_cnt") = 2

(***************************************************************************)
(* Properties of the proxy's error propagation                             *)
(***************************************************************************)
\* the message just handled was skipped for a parse error or another channel
SkippedMessage ==
  /\ HandlesMessage
  /\ last_msg'.status \in {"parse_error", "channel_mismatch", "truncated",
                           "bad_version", "short_channel"}

\* the data flush of this step failed: in handle_message, or in the
\* force-flush at the top of the outer loop
DataFlushFailed ==
  \/ HandlesMessage /\ last_msg'.status = "flush_failed"
  \/ pc = "run" /\ pc' = "cleanup" /\ rc' # 0

\* C32: parse errors and channel mismatches never end the main loop; every
\* other error (a failed data-KP flush, a failed stats-KP flush, an error
\* event from the bus other than partition EOF) breaks the main loop, after
\* which the final force-flush is attempted and run returns failure.
C32_ErrorPropagation ==
  /\ [][SkippedMessage => pc' \in {"run", "burst"}]_vars
  /\ [][DataFlushFailed => pc' = "cleanup"]_vars
  /\ [][HandlesOtherError => pc' = "cleanup"]_vars
  /\ [][(tally'.last = "failed" /\ tally.last # "failed") => pc' = "cleanup"]_vars
  /\ [][(pc = "cleanup" /\ pc' = "done" /\ shutdown_proxy = 0)
          => exit_status' = <<-1>>]_vars

(***************************************************************************)
(* Properties of the Kafka backend's init and buffer                       *)
(***************************************************************************)
\* C33: whenever timeseries_backend_kafka_init returns failure, at whatever
\* step, the backend holds no registered state and no open resource
\* afterwards, as after free.
C33_InitFailureReverts == k_pc = "failed" => kstate = NoState

\* C38: state->buffer_written is 0 at entry to every kp_flush and every
\* set_single call, after any sequence of earlier calls, calls that failed
\* because produce failed included: the buffer is empty whenever the backend
\* is between two calls.
C38_BufferEmptyAtEntry ==
  /\ \A i \in 1..Len(k_ghost.calls) : k_ghost.calls[i].entry = 0
  /\ k_pc = "ready" => buffer_written(kstate) = 0

\* a call that returned failure was followed by a call that succeeded
C38_Witness ==
  /\ Len(k_ghost.calls) = 2
  /\ k_ghost.calls[1].rc = -1
  /\ k_ghost.calls[2].rc = 0
  /\ k_ghost.calls[2].entry = 0
  /\ produced # <<>>

====
